---- MODULE Spec2Model ----
(***************************************************************************)
(* Planner-Executor subsystem of markdown-knowledge-agent                  *)
(* (src/modules/planning.py), its Memory module (src/modules/memory.py),   *)
(* its Reflection module (src/modules/reflection.py) and the refinement    *)
(* loop of ObsidianAgent.ask (src/core/agent.py).                          *)
(*                                                                         *)
(* Representation of Python values.                                        *)
(*  - A Python str that the code slices, splits or searches (parameter     *)
(*    values, sub-task results, the planner's response text) is a sequence *)
(*    of tokens; a token is a run of characters that no operation of the   *)
(*    code cuts in two.  "\n" is the newline token, " " a blank.           *)
(*  - A non-string parameter value (an int) is a sequence whose first      *)
(*    token is "#int".                                                     *)
(*  - None in a field that holds such a str (result, error) is NoneSeq;    *)
(*    None in the tool field is NoneVal.                                   *)
(*  - Names the code only compares (tool names, statuses) are TLA+         *)
(*    strings.                                                             *)
(* description / expected_outcome / created_at are free text that no       *)
(* branch of the code reads; they are left out of the records.             *)
(***************************************************************************)
EXTENDS Integers, Sequences, FiniteSets, TLC

VARIABLES
    cfg,         \* Executor.max_retries, Executor.verification_mode
    plan,        \* the Plan being executed (mutated in place)
    results,     \* the `results` dict of execute_plan
    pc,          \* position of the call
    idx,         \* index in plan.subtasks of the loop variable `subtask`
    attempt,     \* `attempt` of the retry loop
    params,      \* `params`, the resolved parameters of the current sub-task
    raised,      \* exception that left the call, or NoneVal
    llmCalls,    \* per sub-task position: its model.invoke calls in order, each with
                 \* the context put in the prompt (stub record)
    toolCalls,   \* per sub-task position: its tool.invoke calls in order, each with
                 \* the argument passed and whether the call raised (stub record)
    synthCalls,  \* number of model.invoke calls made by _generate_final_answer
    question,    \* Planner: the question
    llmReply,    \* Planner: outcome of model.invoke in generate_plan
    planOut,     \* Planner: the value generate_plan returned, or NoPlan
    memory,      \* the MemoryModule object: its fields
    state,       \* MemoryModule.process: the state dict it returned last
    turns,       \* the (question, answer) pairs given to MemoryModule.update since
                 \* the module was last reset (record kept by the caller)
    bag,         \* PlannerExecutorModule.process: the state dict it is given
    facade,      \* PlannerExecutorModule.process: position of the call, number
                 \* of the request, summary of the request before it
    rcfg,        \* ReflectionModule.max_iterations, .acceptance_threshold
    rstate,      \* ObsidianAgent.ask, standard mode: the state dict
    askv         \* ObsidianAgent.ask: position, loop variable `iteration`,
                 \* `answer`, number of agent.invoke calls, the answer returned

vars == <<cfg, plan, results, pc, idx, attempt, params, raised,
          llmCalls, toolCalls, synthCalls, question, llmReply, planOut,
          memory, state, turns, bag, facade, rcfg, rstate, askv>>

execVars == <<cfg, plan, results, pc, idx, attempt, params, raised,
              llmCalls, toolCalls, synthCalls>>

plannerVars == <<question, llmReply, planOut>>

memVars == <<memory, state, turns>>

facadeVars == <<bag, facade>>

reflVars == <<rcfg, rstate, askv>>

----------------------------------------------------------------------------
(* Bounds of the model *)

MaxSubtasks == 2

MaxRetries == 2

\* largest max_history, and most update calls between two resets
MaxHistory == 3

MaxUpdates == 3

\* largest max_iterations of the ReflectionModule
MaxIterations == 2

----------------------------------------------------------------------------
(* Values *)

NoneVal == "None"

NoneSeq == <<"#None">>

NL == "\n"

Blank == " "

TypeErrorVal == <<"#TypeError">>

Statuses == {"pending", "running", "completed", "failed"}

Modes == {"strict", "flexible"}

DepsError == <<"Dependencies not satisfied">>

\* the tools handed to Executor.__init__ ; tool_map = {tool.name: tool}
ToolMap == {"search_notes", "read_note"}

\* what the stubs return: the search tool a list of paths, one per line, the
\* read tool one line of text, the model one line of text
ToolOutput(tool) ==
    IF tool = "search_notes" THEN <<"todo.md", Blank, NL, "notes.md">>
    ELSE <<"- buy milk">>

LLMOutputs == {<<"generated">>}

\* str(e) for the exceptions model.invoke raises
LLMExceptionTexts == {<<"overloaded">>}

Digits == {"0", "1", "2", "3", "4", "5", "6", "7", "8", "9"}

DigitVal(d) ==
    CASE d = "0" -> 0 [] d = "1" -> 1 [] d = "2" -> 2 [] d = "3" -> 3
      [] d = "4" -> 4 [] d = "5" -> 5 [] d = "6" -> 6 [] d = "7" -> 7
      [] d = "8" -> 8 [] d = "9" -> 9

DigitTok(n) ==
    CASE n = 0 -> "0" [] n = 1 -> "1" [] n = 2 -> "2" [] n = 3 -> "3"
      [] n = 4 -> "4" [] n = 5 -> "5" [] n = 6 -> "6" [] n = 7 -> "7"
      [] n = 8 -> "8" [] n = 9 -> "9"

\* str(e) for the exception a stub tool raises at its n-th call
ExceptionAt(n) == <<"call", DigitTok(n), "failed">>

ExceptionTexts == {ExceptionAt(n) : n \in 1..MaxRetries}

----------------------------------------------------------------------------
(* str operations used by the code *)

\* t in s, for a token t
Contains(s, t) == \E i \in 1..Len(s) : s[i] = t

Whitespace == {Blank, NL}

\* str.strip()
RECURSIVE LStrip(_)
LStrip(s) == IF s # <<>> /\ Head(s) \in Whitespace THEN LStrip(Tail(s)) ELSE s

RECURSIVE RStrip(_)
RStrip(s) ==
    IF s # <<>> /\ s[Len(s)] \in Whitespace THEN RStrip(SubSeq(s, 1, Len(s) - 1)) ELSE s

Strip(s) == RStrip(LStrip(s))

\* s.split("\n")[0]
RECURSIVE SplitFirst(_)
SplitFirst(s) ==
    IF s = <<>> \/ Head(s) = NL THEN <<>> ELSE <<Head(s)>> \o SplitFirst(Tail(s))

\* value of a run of digit tokens
RECURSIVE DigitsValue(_, _)
DigitsValue(s, acc) ==
    IF s = <<>> THEN acc ELSE DigitsValue(Tail(s), 10 * acc + DigitVal(Head(s)))

\* int(s) as a set: {n} when s, stripped, is a non-empty run of digits, and {}
\* when int raises ValueError
ParseInt(s) ==
    LET t == Strip(s)
    IN  IF t # <<>> /\ \A i \in 1..Len(t) : t[i] \in Digits
        THEN {DigitsValue(t, 0)}
        ELSE {}

\* s.replace(t, "")
Remove(s, t) == SelectSeq(s, LAMBDA x : x # t)

\* tokens in which the text "task" occurs, in any case; each of them ends the
\* occurrence at its last character or is followed by "_" inside the token
TaskTokens == {"task", "Task", "TASK"}

TaskPrefixTokens == {"from_task_"}

Punctuation == {"$", "(", ")", "[", "]", "{", "}"}

\* "task" in value.lower()
ContainsTask(s) == \E i \in 1..Len(s) : s[i] \in TaskTokens \cup TaskPrefixTokens

\* a test that finds one of the characters in every string
ContainsPunctuationAlways(s) == TRUE

\* any(c in value for c in ['$', '(', ')', '[', ']', '{', '}'])
ContainsPunctuation(s) == \E i \in 1..Len(s) : s[i] \in Punctuation

\* the digits matched by [0-9]+ from position j on
RECURSIVE DigitRun(_, _)
DigitRun(s, j) ==
    IF j <= Len(s) /\ s[j] \in Digits THEN <<s[j]>> \o DigitRun(s, j + 1) ELSE <<>>

\* first position after the run [_\s]* that starts at j
RECURSIVE SkipSeparators(_, _)
SkipSeparators(s, j) ==
    IF j <= Len(s) /\ s[j] \in {"_", Blank, NL} THEN SkipSeparators(s, j + 1) ELSE j

\* re.search(r'task[_\s]*([0-9]+)', value, re.IGNORECASE): the positions at
\* which the pattern matches
RegexMatches(s) ==
    {i \in 1..Len(s) :
        /\ s[i] \in TaskTokens \cup TaskPrefixTokens
        /\ DigitRun(s, SkipSeparators(s, i + 1)) # <<>>}

\* a pattern that never matches
RegexTaskIdNoMatch(s) == {}

\* {int(match.group(1))} for the leftmost match, {} when there is no match
RegexTaskId(s) ==
    IF RegexMatches(s) = {} THEN {}
    ELSE LET i == CHOOSE m \in RegexMatches(s) : \A n \in RegexMatches(s) : m <= n
         IN  {DigitsValue(DigitRun(s, SkipSeparators(s, i + 1)), 0)}

\* isinstance(value, str)
IsStr(v) == ~(v # <<>> /\ Head(v) = "#int")

----------------------------------------------------------------------------
(* Executor._check_dependencies, Executor._resolve_parameters *)

\* a dependency check that only looks for the entry, not at its status
CheckDependenciesPresent(subtask, completed) ==
    \A k \in 1..Len(subtask.dependencies) : subtask.dependencies[k] \in DOMAIN completed

\* a dependency check that every sub-task passes
CheckDependenciesAlways(subtask, completed) == TRUE

\* a dependency check that lets a sub-task depend on itself
CheckDependenciesExceptSelf(subtask, completed) ==
    \A k \in 1..Len(subtask.dependencies) :
        \/ subtask.dependencies[k] = subtask.id
        \/ /\ subtask.dependencies[k] \in DOMAIN completed
           /\ completed[subtask.dependencies[k]].status = "completed"

\* Executor._check_dependencies(subtask, completed)
CheckDependencies(subtask, completed) ==
    \A k \in 1..Len(subtask.dependencies) :
        LET dep_id == subtask.dependencies[k]
        IN  /\ dep_id \in DOMAIN completed
            /\ completed[dep_id].status = "completed"

\* a substitution that keeps every line of the result
SubstituteWhole(task_id, completed) ==
    LET result == completed[task_id].result
    IN  IF result = NoneSeq THEN TypeErrorVal ELSE result

\* the five lines shared by both branches: completed[task_id]["result"],
\* cut to its first line when it has several; `"\n" in None` raises TypeError
Substitute(task_id, completed) ==
    LET result == completed[task_id].result
    IN  IF result = NoneSeq THEN TypeErrorVal
        ELSE IF Contains(result, NL) THEN Strip(SplitFirst(result))
        ELSE result

\* the body of the loop of _resolve_parameters for one value
ResolveValue(value, completed) ==
    IF ~IsStr(value) THEN value
    ELSE IF value # <<>> /\ Head(value) = "from_task_" THEN
        LET parsed == ParseInt(Remove(value, "from_task_"))
        IN  IF parsed = {} THEN value
            ELSE LET task_id == CHOOSE n \in parsed : TRUE
                 IN  IF task_id \in DOMAIN completed
                     THEN Substitute(task_id, completed)
                     ELSE value
    ELSE IF ContainsTask(value) /\ ContainsPunctuation(value) THEN
        LET matched == RegexTaskId(value)
        IN  IF matched = {} THEN value
            ELSE LET task_id == CHOOSE n \in matched : TRUE
                 IN  IF task_id \in DOMAIN completed
                     THEN Substitute(task_id, completed)
                     ELSE value
    ELSE value

\* the keys of a dict with int keys, in ascending order (the order in which
\* execute_plan inserts the ids of the plans of the model)
RECURSIVE AscendingIds(_)
AscendingIds(S) ==
    IF S = {} THEN <<>>
    ELSE LET least == CHOOSE x \in S : \A y \in S : x <= y
         IN  <<least>> \o AscendingIds(S \ {least})

\* a context made of every entry of the results map
LLMContextOfAll(completed) ==
    [k \in 1..Len(AscendingIds(DOMAIN completed)) |->
        [tid |-> AscendingIds(DOMAIN completed)[k],
         result |-> completed[AscendingIds(DOMAIN completed)[k]].result]]

\* the context of _process_with_llm: "Task {tid}: {result}" for the entries
\* of `completed` whose status is completed, one per line
LLMContext(completed) ==
    LET tids == AscendingIds({tid \in DOMAIN completed :
                                 completed[tid].status = "completed"})
    IN  [k \in 1..Len(tids) |-> [tid |-> tids[k], result |-> completed[tids[k]].result]]

\* Executor._resolve_parameters(params, completed) raises (TypeError)
ResolveRaises(ps, completed) ==
    \E k \in DOMAIN ps : ResolveValue(ps[k], completed) = TypeErrorVal

\* a resolution that passes every value through
ResolveParametersUnresolved(ps, completed) == ps

\* the dict Executor._resolve_parameters(params, completed) returns
ResolveParameters(ps, completed) ==
    [k \in DOMAIN ps |-> ResolveValue(ps[k], completed)]

----------------------------------------------------------------------------
(* The plans and configurations execute_plan is run on *)

\* SubTask(...) with status, result and error at their defaults
SubTask(id, description, tool, parameters, expected_outcome, dependencies) ==
    [id |-> id, description |-> description, tool |-> tool,
     parameters |-> parameters, expected_outcome |-> expected_outcome,
     dependencies |-> dependencies,
     status |-> "pending", result |-> NoneSeq, error |-> NoneSeq]

\* Plan(...) with status at its default
Plan(goal, subtasks) == [goal |-> goal, subtasks |-> subtasks, status |-> "pending"]

NoParams == [k \in {} |-> <<>>]

\* a sub-task is described by its tool, the place of its one dependency and the
\* form of its parameters, both relative to its own id
ShapeOf(tool, dep, par) == [tool |-> tool, dep |-> dep, par |-> par]

Shapes ==
    {ShapeOf(NoneVal, "none", "none"),
     ShapeOf(NoneVal, "prev", "none"),
     ShapeOf("", "none", "none"),
     ShapeOf("ghost_tool", "none", "from_task"),
     ShapeOf("search_notes", "none", "literal"),
     ShapeOf("read_note", "none", "from_task"),
     ShapeOf("read_note", "none", "loose"),
     ShapeOf("read_note", "prev", "from_task"),
     ShapeOf("search_notes", "self", "literal"),
     ShapeOf("search_notes", "next", "literal")}

DepsOf(id, dep) ==
    CASE dep = "none" -> <<>>
      [] dep = "prev" -> <<id - 1>>
      [] dep = "self" -> <<id>>
      [] dep = "next" -> <<id + 1>>

ParamsOf(id, par) ==
    CASE par = "none" -> NoParams
      [] par = "literal" ->
            [keyword |-> <<"TODO">>,
             folder |-> <<"task", Blank, DigitTok(id - 1)>>,
             pattern |-> <<"(", "urgent", ")">>]
      [] par = "from_task" ->
            [file_path |-> <<"from_task_", DigitTok(id - 1)>>,
             max_lines |-> <<"#int", "100">>]
      [] par = "loose" ->
            [file_path |-> <<"$", "(", "task", "_", DigitTok(id - 1), ")">>,
             fallback |-> <<"from_task_", Blank, DigitTok(id - 1)>>]

\* ids are the positions 1..n, or the first two sub-tasks share id 1
IdLayouts == {"distinct", "shared"}

IdAt(layout, i) == IF layout = "shared" /\ i > 1 THEN i - 1 ELSE i

PlanOf(n, layout, shapes) ==
    Plan(<<"goal">>,
         [i \in 1..n |->
            SubTask(IdAt(layout, i), <<"step">>, shapes[i].tool,
                    ParamsOf(IdAt(layout, i), shapes[i].par), <<"outcome">>,
                    DepsOf(IdAt(layout, i), shapes[i].dep))])

\* the record a stub tool keeps of one call
Call(args, didRaise, e) == [args |-> args, raised |-> didRaise, error |-> e]

\* final_answer: None, the text the model returned, or the fallback sentence
\* with the number it reports
NoAnswer == [kind |-> "None", text |-> <<>>, count |-> 0]

TextAnswer(text) == [kind |-> "text", text |-> text, count |-> 0]

FallbackAnswer(n) == [kind |-> "fallback", text |-> <<>>, count |-> n]

\* the `results` dict execute_plan starts with (`plan` is the variable plan)
NewResults == [subtask_results |-> <<>>, final_answer |-> NoAnswer, success |-> FALSE]

InitExecutor ==
    /\ \E n \in 0..MaxSubtasks, layout \in IdLayouts :
         \E shapes \in [1..n -> Shapes] :
            /\ layout = "shared" => n >= 2
            /\ plan = PlanOf(n, layout, shapes)
    /\ cfg \in [max_retries : 0..MaxRetries, verification_mode : Modes]
    /\ results = NewResults
    /\ pc = "start"
    /\ idx = 0
    /\ attempt = 0
    /\ params = NoParams
    /\ raised = NoneVal
    /\ toolCalls = [i \in 1..Len(plan.subtasks) |-> <<>>]
    /\ llmCalls = [i \in 1..Len(plan.subtasks) |-> <<>>]
    /\ synthCalls = 0

----------------------------------------------------------------------------
(* Executor.execute_plan *)

Current == plan.subtasks[idx]

\* the entry execute_plan stores for a sub-task
Summary(subtask) ==
    [description |-> subtask.description, status |-> subtask.status,
     result |-> subtask.result, error |-> subtask.error]

\* a walk that no failure stops
ShouldHaltNever(success, subtask, mode) == FALSE

\* `if not success and subtask.tool is not None` ... `if self.verification_mode == "strict"`
ShouldHalt(success, subtask, mode) ==
    ~success /\ subtask.tool # NoneVal /\ mode = "strict"

\* `for attempt in range(self.max_retries)`: the loop body runs for this attempt
InRange(n, max_retries) == n < max_retries

\* max_retries read as the number of retries after the first attempt
IsFinalAttemptAfterRetries(n, max_retries) == n = max_retries

\* `if attempt == self.max_retries - 1`
IsFinalAttempt(n, max_retries) == n = max_retries - 1

\* `not subtask.tool`
NoTool(tool) == tool = NoneVal \/ tool = ""

\* the status execute_plan gives the plan after the loop
FinalPlanStatus(status) == "completed"

\* len([r for r in subtask_results.values() if r['status'] == 'completed'])
CompletedCount(subtask_results) ==
    Cardinality({id \in DOMAIN subtask_results : subtask_results[id].status = "completed"})

\* a loop body that puts the sub-task back to pending
ConcludeReopened(p, success) ==
    /\ results' = [results EXCEPT
          !.subtask_results = (p.subtasks[idx].id :> Summary(p.subtasks[idx])) @@ @]
    /\ plan' = [p EXCEPT !.subtasks[idx].status = "pending"]
    /\ pc' = "loop"
    /\ idx' = idx + 1

\* the rest of the loop body once _execute_subtask has returned `success`,
\* p being the plan as _execute_subtask left it
Conclude(p, success) ==
    LET subtask == p.subtasks[idx]
    IN  /\ results' = [results EXCEPT
              !.subtask_results = (subtask.id :> Summary(subtask)) @@ @]
        /\ IF ShouldHalt(success, subtask, cfg.verification_mode)
           THEN /\ plan' = [p EXCEPT !.status = "failed"]
                /\ pc' = "halt"
                /\ idx' = idx
           ELSE /\ plan' = p
                /\ pc' = "loop"
                /\ idx' = idx + 1

\* an execute_plan that goes on with the results of the call before
BeginExecuteKeeping ==
    /\ pc = "start"
    /\ plan' = [plan EXCEPT !.status = "executing"]
    /\ idx' = 1
    /\ pc' = "loop"
    /\ UNCHANGED <<cfg, results, attempt, params, raised, toolCalls, llmCalls, synthCalls, question, llmReply, planOut, memVars, facadeVars, reflVars>>

BeginExecute ==
    /\ pc = "start"
    /\ plan' = [plan EXCEPT !.status = "executing"]
    /\ results' = NewResults
    /\ idx' = 1
    /\ pc' = "loop"
    /\ UNCHANGED <<cfg, attempt, params, raised, toolCalls, llmCalls, synthCalls, question, llmReply, planOut, memVars, facadeVars, reflVars>>

\* a skip that records the error and leaves the status as it is
SkipSubtaskLeftPending ==
    /\ pc = "loop"
    /\ idx <= Len(plan.subtasks)
    /\ ~CheckDependencies(plan.subtasks[idx], results.subtask_results)
    /\ plan' = [plan EXCEPT !.subtasks[idx].error = DepsError]
    /\ idx' = idx + 1
    /\ UNCHANGED <<cfg, results, pc, attempt, params, raised, toolCalls, llmCalls, synthCalls, question, llmReply, planOut, memVars, facadeVars, reflVars>>

\* a skip that marks nothing
SkipSubtaskDeferred ==
    /\ pc = "loop"
    /\ idx <= Len(plan.subtasks)
    /\ ~CheckDependencies(plan.subtasks[idx], results.subtask_results)
    /\ idx' = idx + 1
    /\ UNCHANGED <<cfg, plan, results, pc, attempt, params, raised, toolCalls, llmCalls, synthCalls, question, llmReply, planOut, memVars, facadeVars, reflVars>>

\* the dependency check fails: the sub-task is marked failed and skipped
SkipSubtask ==
    /\ pc = "loop"
    /\ idx <= Len(plan.subtasks)
    /\ ~CheckDependencies(Current, results.subtask_results)
    /\ plan' = [plan EXCEPT !.subtasks[idx].status = "failed",
                            !.subtasks[idx].error = DepsError]
    /\ idx' = idx + 1
    /\ UNCHANGED <<cfg, results, pc, attempt, params, raised, toolCalls, llmCalls, synthCalls, question, llmReply, planOut, memVars, facadeVars, reflVars>>

\* the dependency check passes: _execute_subtask starts
StartSubtask ==
    /\ pc = "loop"
    /\ idx <= Len(plan.subtasks)
    /\ CheckDependencies(Current, results.subtask_results)
    /\ plan' = [plan EXCEPT !.subtasks[idx].status = "running"]
    /\ pc' = "exec"
    /\ UNCHANGED <<cfg, results, idx, attempt, params, raised, toolCalls, llmCalls, synthCalls, question, llmReply, planOut, memVars, facadeVars, reflVars>>

\* a tool-less branch that calls the model a second time
ExecWithLLMTwice ==
    /\ pc = "exec"
    /\ NoTool(Current.tool)
    /\ llmCalls' = [llmCalls EXCEPT ![idx] =
            @ \o <<LLMContext(results.subtask_results), LLMContext(results.subtask_results)>>]
    /\ \E content \in LLMOutputs :
            Conclude([plan EXCEPT !.subtasks[idx].result = content,
                                  !.subtasks[idx].status = "completed"], TRUE)
    /\ UNCHANGED <<cfg, attempt, params, raised, toolCalls, synthCalls, question, llmReply, planOut, memVars, facadeVars, reflVars>>

\* _execute_subtask, no tool: one model.invoke, which returns or raises
ExecWithLLM ==
    /\ pc = "exec"
    /\ NoTool(Current.tool)
    /\ llmCalls' = [llmCalls EXCEPT ![idx] = Append(@, LLMContext(results.subtask_results))]
    /\ \/ \E content \in LLMOutputs :
            Conclude([plan EXCEPT !.subtasks[idx].result = content,
                                  !.subtasks[idx].status = "completed"], TRUE)
       \/ \E e \in LLMExceptionTexts :
            Conclude([plan EXCEPT !.subtasks[idx].status = "failed",
                                  !.subtasks[idx].error = e], FALSE)
    /\ UNCHANGED <<cfg, attempt, params, raised, toolCalls, synthCalls, question, llmReply, planOut, memVars, facadeVars, reflVars>>

\* a missing-tool branch that records another text
ExecMissingToolTerse ==
    /\ pc = "exec"
    /\ ~NoTool(Current.tool)
    /\ Current.tool \notin ToolMap
    /\ Conclude([plan EXCEPT
            !.subtasks[idx].status = "failed",
            !.subtasks[idx].error = <<"Tool not found: ", Current.tool>>], FALSE)
    /\ UNCHANGED <<cfg, attempt, params, raised, toolCalls, llmCalls, synthCalls, question, llmReply, planOut, memVars, facadeVars, reflVars>>

\* _execute_subtask, the tool is not in tool_map
ExecMissingTool ==
    /\ pc = "exec"
    /\ ~NoTool(Current.tool)
    /\ Current.tool \notin ToolMap
    /\ Conclude([plan EXCEPT
            !.subtasks[idx].status = "failed",
            !.subtasks[idx].error = <<"Tool '", Current.tool, "' not available">>], FALSE)
    /\ UNCHANGED <<cfg, attempt, params, raised, toolCalls, llmCalls, synthCalls, question, llmReply, planOut, memVars, facadeVars, reflVars>>

\* _execute_subtask, the tool is found: _resolve_parameters, which returns the
\* resolved dict or raises TypeError out of execute_plan
ResolveStep ==
    /\ pc = "exec"
    /\ ~NoTool(Current.tool)
    /\ Current.tool \in ToolMap
    /\ IF ResolveRaises(Current.parameters, results.subtask_results)
       THEN /\ pc' = "raised"
            /\ raised' = "TypeError"
            /\ UNCHANGED <<params, attempt>>
       ELSE /\ params' = ResolveParameters(Current.parameters, results.subtask_results)
            /\ attempt' = 0
            /\ pc' = "invoke"
            /\ UNCHANGED raised
    /\ UNCHANGED <<cfg, plan, results, idx, toolCalls, llmCalls, synthCalls, question, llmReply, planOut, memVars, facadeVars, reflVars>>

\* one pass of the retry loop: tool.invoke(params) returns or raises
InvokeTool ==
    /\ pc = "invoke"
    /\ InRange(attempt, cfg.max_retries)
    /\ \/ /\ toolCalls' = [toolCalls EXCEPT ![idx] = Append(@, Call(params, FALSE, NoneSeq))]
          /\ Conclude([plan EXCEPT !.subtasks[idx].result = ToolOutput(Current.tool),
                                     !.subtasks[idx].status = "completed"], TRUE)
          /\ UNCHANGED attempt
       \/ \E e \in {ExceptionAt(Len(toolCalls[idx]) + 1)} :
            /\ toolCalls' = [toolCalls EXCEPT ![idx] = Append(@, Call(params, TRUE, e))]
            /\ IF IsFinalAttempt(attempt, cfg.max_retries)
               THEN /\ Conclude([plan EXCEPT !.subtasks[idx].status = "failed",
                                             !.subtasks[idx].error = e], FALSE)
                    /\ UNCHANGED attempt
               ELSE /\ attempt' = attempt + 1
                    /\ UNCHANGED <<plan, results, pc, idx>>
    /\ UNCHANGED <<cfg, params, raised, llmCalls, synthCalls, question, llmReply, planOut, memVars, facadeVars, reflVars>>

\* the retry loop ends without a return: the `return False` after it
RetryLoopExhausted ==
    /\ pc = "invoke"
    /\ ~InRange(attempt, cfg.max_retries)
    /\ Conclude(plan, FALSE)
    /\ UNCHANGED <<cfg, attempt, params, raised, toolCalls, llmCalls, synthCalls, question, llmReply, planOut, memVars, facadeVars, reflVars>>

\* after the loop (ended or broken): the plan status, _generate_final_answer
\* with its one model.invoke, the success flag, the return
GenerateFinalAnswer ==
    /\ \/ pc = "loop" /\ idx > Len(plan.subtasks)
       \/ pc = "halt"
    /\ plan' = [plan EXCEPT !.status = FinalPlanStatus(plan.status)]
    /\ synthCalls' = synthCalls + 1
    /\ \E answer \in {TextAnswer(t) : t \in LLMOutputs}
                     \cup {FallbackAnswer(CompletedCount(results.subtask_results))} :
          results' = [results EXCEPT !.final_answer = answer,
                                     !.success = (plan'.status = "completed")]
    /\ pc' = "done"
    /\ UNCHANGED <<cfg, idx, attempt, params, raised, toolCalls, llmCalls, question, llmReply, planOut, memVars, facadeVars, reflVars>>

Next ==
    \/ BeginExecute
    \/ SkipSubtask
    \/ StartSubtask
    \/ ExecWithLLM
    \/ ExecMissingTool
    \/ ResolveStep
    \/ InvokeTool
    \/ RetryLoopExhausted
    \/ GenerateFinalAnswer

----------------------------------------------------------------------------
(* Planner: the text the model returns and what json.loads makes of it *)

\* the token for a run of three backticks
Fence == "<fence>"

\* s.startswith(fence)
StartsWithFence(s) == s # <<>> /\ Head(s) = Fence

\* s.split("\n")
RECURSIVE SplitLines(_)
SplitLines(s) ==
    IF ~Contains(s, NL) THEN <<s>>
    ELSE <<SplitFirst(s)>> \o SplitLines(SubSeq(s, Len(SplitFirst(s)) + 2, Len(s)))

\* "\n".join(lines)
RECURSIVE JoinLines(_)
JoinLines(lines) ==
    IF lines = <<>> THEN <<>>
    ELSE IF Len(lines) = 1 THEN lines[1]
    ELSE lines[1] \o <<NL>> \o JoinLines(Tail(lines))

\* s.replace(fence + "json", ""): the language tag json is the token after the fence
RECURSIVE RemoveFenceJson(_)
RemoveFenceJson(s) ==
    IF s = <<>> THEN <<>>
    ELSE IF Len(s) >= 2 /\ s[1] = Fence /\ s[2] = "json"
         THEN RemoveFenceJson(SubSeq(s, 3, Len(s)))
    ELSE <<Head(s)>> \o RemoveFenceJson(Tail(s))

\* the JSON documents of the model: the value json.loads returns for each.
\* A dict is [type |-> "dict", has |-> its keys, ...]; a key that is absent
\* keeps a placeholder value that nothing reads.
SubTaskFields ==
    {"id", "description", "tool", "parameters", "expected_outcome",
     "dependencies", "status", "result", "error"}

RawSubTask(has, id, tool, parameters, dependencies) ==
    [has |-> has, id |-> id, description |-> <<"step">>, tool |-> tool,
     parameters |-> parameters, expected_outcome |-> <<"outcome">>,
     dependencies |-> dependencies,
     status |-> "pending", result |-> NoneSeq, error |-> NoneSeq]

PlannerFields ==
    {"id", "description", "tool", "parameters", "expected_outcome", "dependencies"}

SearchStep(id) ==
    RawSubTask(PlannerFields, id, "search_notes", [keyword |-> <<"TODO">>], <<>>)

ReadStep(id, from) ==
    RawSubTask(PlannerFields, id, "read_note",
               [file_path |-> <<"from_task_", DigitTok(from)>>,
                max_lines |-> <<"#int", "100">>], <<from>>)

AnswerStep(id, from) ==
    RawSubTask(PlannerFields, id, NoneVal, NoParams, <<from>>)

Dict(has, goal, subtasks) ==
    [type |-> "dict", has |-> has, goal |-> goal, subtasks |-> subtasks,
     status |-> "pending"]

NotADict == [type |-> "list", has |-> {}, goal |-> <<>>, subtasks |-> <<>>,
             status |-> "pending"]

DocNames ==
    {"find_read_answer", "one_step", "no_subtasks", "same_ids", "no_goal",
     "no_description", "a_list", "long_plan", "read_unlinked"}

JsonValue(doc) ==
    CASE doc = "find_read_answer" ->
            Dict({"goal", "subtasks"}, <<"find and read">>,
                 <<SearchStep(1), ReadStep(2, 1), AnswerStep(3, 2)>>)
      [] doc = "long_plan" ->
            Dict({"goal", "subtasks"}, <<"find and read">>,
                 <<SearchStep(1), ReadStep(2, 1)>>)
      [] doc = "one_step" ->
            Dict({"goal", "subtasks"}, <<"search">>, <<SearchStep(1)>>)
      [] doc = "no_subtasks" ->
            Dict({"goal", "subtasks"}, <<"nothing">>, <<>>)
      [] doc = "same_ids" ->
            Dict({"goal", "subtasks"}, <<"twice">>, <<SearchStep(1), SearchStep(1)>>)
      [] doc = "no_goal" ->
            Dict({"subtasks"}, <<>>, <<SearchStep(1)>>)
      [] doc = "no_description" ->
            Dict({"goal", "subtasks"}, <<"search">>,
                 <<RawSubTask(PlannerFields \ {"description"}, 1, "search_notes",
                              [keyword |-> <<"TODO">>], <<>>)>>)
      [] doc = "read_unlinked" ->
            Dict({"goal", "subtasks"}, <<"find and read">>,
                 <<SearchStep(1),
                   RawSubTask(PlannerFields \ {"dependencies"}, 2, "read_note",
                              [file_path |-> <<"from_task_", "1">>], <<>>)>>)
      [] doc = "a_list" -> NotADict

\* the texts that are JSON: a document on one line is the token that names it;
\* long_plan is also written on two lines, as the tokens "long_plan{" and
\* "}long_plan".  White space between the tokens of a document is not
\* significant to json.loads.
Unspaced(s) == SelectSeq(s, LAMBDA x : x \notin Whitespace)

IsJson(s) ==
    \/ Len(Unspaced(s)) = 1 /\ Unspaced(s)[1] \in DocNames
    \/ Unspaced(s) = <<"long_plan{", "}long_plan">>

\* json.loads(s), for s with IsJson(s); JSONDecodeError otherwise
JsonLoads(s) ==
    IF Len(Unspaced(s)) = 1 THEN JsonValue(Unspaced(s)[1]) ELSE JsonValue("long_plan")

----------------------------------------------------------------------------
(* Planner._create_fallback_plan, Planner._parse_plan_response, Planner.generate_plan *)

\* a fallback plan whose sub-task is bound to a tool
CreateFallbackPlanWithTool(q) ==
    [goal |-> q,
     subtasks |-> <<[id |-> 1,
                     description |-> <<"Repondre directement a la question">>,
                     tool |-> "search_notes",
                     parameters |-> [keyword |-> q],
                     expected_outcome |-> <<"Reponse a la question">>,
                     dependencies |-> <<>>,
                     status |-> "pending", result |-> NoneSeq, error |-> NoneSeq]>>,
     status |-> "pending"]

\* Planner._create_fallback_plan(question)
CreateFallbackPlan(q) ==
    [goal |-> q,
     subtasks |-> <<[id |-> 1,
                     description |-> <<"Repondre directement a la question">>,
                     tool |-> NoneVal,
                     parameters |-> NoParams,
                     expected_outcome |-> <<"Reponse a la question">>,
                     dependencies |-> <<>>,
                     status |-> "pending", result |-> NoneSeq, error |-> NoneSeq]>>,
     status |-> "pending"]

\* Plan.model_dump(): the dict of all fields of the plan and of its sub-tasks
ModelDump(p) ==
    [type |-> "dict", has |-> {"goal", "subtasks", "created_at", "status"},
     goal |-> p.goal,
     subtasks |-> [i \in 1..Len(p.subtasks) |->
                     [has |-> SubTaskFields,
                      id |-> p.subtasks[i].id,
                      description |-> p.subtasks[i].description,
                      tool |-> p.subtasks[i].tool,
                      parameters |-> p.subtasks[i].parameters,
                      expected_outcome |-> p.subtasks[i].expected_outcome,
                      dependencies |-> p.subtasks[i].dependencies,
                      status |-> p.subtasks[i].status,
                      result |-> p.subtasks[i].result,
                      error |-> p.subtasks[i].error]],
     status |-> p.status]

\* the text _parse_plan_response hands to json.loads
StripFences(response) ==
    LET stripped == Strip(response)
        lines == SplitLines(stripped)
        inner == IF Len(lines) > 2
                 THEN JoinLines(SubSeq(lines, 2, Len(lines) - 1))
                 ELSE stripped
    IN  IF StartsWithFence(stripped)
        THEN Strip(Remove(RemoveFenceJson(inner), Fence))
        ELSE stripped

\* Planner._parse_plan_response(response, question):
\* [raises |-> the call raised (TypeError on plan_data["created_at"] = ...),
\*  data |-> the dict it returned]
ParsePlanResponse(response, q) ==
    LET text == StripFences(response)
    IN  IF ~IsJson(text)
        THEN [raises |-> FALSE, data |-> ModelDump(CreateFallbackPlan(q))]
        ELSE IF JsonLoads(text).type # "dict"
        THEN [raises |-> TRUE, data |-> NotADict]
        ELSE [raises |-> FALSE,
              data |-> [JsonLoads(text) EXCEPT !.has = @ \cup {"created_at"}]]

\* SubTask(**raw) validates: the fields without a default are present
ValidSubTask(raw) == {"id", "description", "expected_outcome"} \subseteq raw.has

\* Plan(**plan_data) validates
ValidPlan(data) ==
    /\ {"goal", "subtasks", "created_at"} \subseteq data.has
    /\ \A i \in 1..Len(data.subtasks) : ValidSubTask(data.subtasks[i])

\* the field of SubTask(**raw): the given value, or the default of the model class
FieldOf(raw, field, given, default) == IF field \in raw.has THEN given ELSE default

\* Plan(**plan_data), for valid data
BuildPlan(data) ==
    [goal |-> data.goal,
     subtasks |-> [i \in 1..Len(data.subtasks) |->
        LET raw == data.subtasks[i]
        IN  [id |-> raw.id,
             description |-> raw.description,
             tool |-> FieldOf(raw, "tool", raw.tool, NoneVal),
             parameters |-> FieldOf(raw, "parameters", raw.parameters, NoParams),
             expected_outcome |-> raw.expected_outcome,
             dependencies |-> FieldOf(raw, "dependencies", raw.dependencies, <<>>),
             status |-> FieldOf(raw, "status", raw.status, "pending"),
             result |-> FieldOf(raw, "result", raw.result, NoneSeq),
             error |-> FieldOf(raw, "error", raw.error, NoneSeq)]],
     status |-> IF "status" \in data.has THEN data.status ELSE "pending"]

NoPlan == Plan(<<>>, <<>>)

\* the try block of generate_plan, reply being the outcome of model.invoke:
\* [raises |-> an exception left the block (from model.invoke, from
\*  _parse_plan_response or from the validation of Plan(**plan_data)),
\*  plan |-> the Plan it returned]
GeneratePlanTry(q, reply) ==
    IF reply.raises THEN [raises |-> TRUE, plan |-> NoPlan]
    ELSE LET parsed == ParsePlanResponse(reply.content, q)
         IN  IF parsed.raises THEN [raises |-> TRUE, plan |-> NoPlan]
             ELSE IF ~ValidPlan(parsed.data) THEN [raises |-> TRUE, plan |-> NoPlan]
             ELSE [raises |-> FALSE, plan |-> BuildPlan(parsed.data)]

\* the same block without its handler
GeneratePlanUncaught(q, reply) == GeneratePlanTry(q, reply)

\* Planner.generate_plan(question): the try block, and `except Exception`
\* returning the fallback plan
GeneratePlanResult(q, reply) ==
    IF GeneratePlanTry(q, reply).raises
    THEN [raises |-> FALSE, plan |-> CreateFallbackPlan(q)]
    ELSE GeneratePlanTry(q, reply)

----------------------------------------------------------------------------
(* The replies generate_plan is run on *)

Questions == {<<"find my todo list">>, <<"what is urgent">>}

\* the ways a document is laid out in the reply
Layouts(doc) ==
    {doc,
     <<Blank>> \o doc \o <<NL>>,
     <<Fence, "json", NL>> \o doc \o <<NL, Fence>>,
     <<Fence, NL>> \o doc \o <<NL, Fence>>,
     <<Fence, "json", Blank>> \o doc \o <<Blank, Fence>>,
     <<Fence, NL>> \o doc \o <<Fence>>}

JsonTexts == {<<d>> : d \in DocNames} \cup {<<"long_plan{", NL, "}long_plan">>}

\* replies that are no JSON at all
ProseTexts == {<<"Sorry,", Blank, "no", Blank, "plan">>, <<>>, <<Fence, NL, Fence>>}

Replies ==
    {[raises |-> TRUE, content |-> <<>>]}
    \cup {[raises |-> FALSE, content |-> t] : t \in UNION {Layouts(d) : d \in JsonTexts}}
    \cup {[raises |-> FALSE, content |-> t] : t \in ProseTexts}

NotReturned == [returned |-> FALSE, raises |-> FALSE, plan |-> NoPlan]

InitPlanner ==
    /\ question \in Questions
    /\ llmReply \in Replies
    /\ planOut = NotReturned

\* Planner.generate_plan(question)
GeneratePlan ==
    /\ ~planOut.returned
    /\ planOut' = [returned |-> TRUE,
                   raises |-> GeneratePlanResult(question, llmReply).raises,
                   plan |-> GeneratePlanResult(question, llmReply).plan]
    /\ UNCHANGED <<question, llmReply>>
    /\ UNCHANGED execVars
    /\ UNCHANGED memVars
    /\ UNCHANGED <<facadeVars, reflVars>>

----------------------------------------------------------------------------
(* MemoryModule (src/modules/memory.py).  A text is a sequence of words; a *)
(* message is a record with role and content; list indices are those of    *)
(* Python, from 0, so history[i] of the code is memory.history[i + 1].     *)

EmptyDict == <<>>

\* a message that is always the user's
MessageFromUser(role, content) == [role |-> "user", content |-> content]

Message(role, content) == [role |-> role, content |-> content]

\* words that match [A-Z][a-zA-Z]+ between word boundaries: a capital letter
\* followed by at least one letter ("I" does not match)
CapitalisedWords == {"Python", "Rust", "The"}

Stoplist == {"The", "A", "An", "In", "On", "At", "To", "For", "Is", "Are", "Was", "Were"}

\* str.lower() of a word
Lower(w) ==
    CASE w = "Python" -> "python"
      [] w = "Rust" -> "rust"
      [] w = "The" -> "the"
      [] w = "I" -> "i"
      [] OTHER -> w

\* the texts given to update, and the queries given to process
UserTexts == {<<"I", "like", "Python">>, <<"The", "Rust", "book">>}

AnswerTexts == {<<"Python", "is", "great">>, <<"ok">>}

Queries == {<<>>, <<"test">>, <<"what", "is", "Python">>, <<"python">>,
            <<"rust", "concept">>, <<"my", "note">>}

\* any(w in query_lower for w in words), for single words none of which is
\* part of a longer word of the queries
AnyWordIn(query, words) == \E i \in 1..Len(query) : Lower(query[i]) \in words

\* MemoryModule.__init__ followed by initialize(); `semantic` is
\* `self.vector_index and self.embedding_model`, ntotal is vector_index.ntotal
NewMemory(max_history, semantic) ==
    [history |-> <<>>, max_history |-> max_history,
     concepts |-> EmptyDict, concept_index |-> EmptyDict, concept_order |-> <<>>,
     user_context |-> EmptyDict,
     semantic |-> semantic, ntotal |-> 0]

\* MemoryModule._decide_consultation_strategy(query)
DecideConsultationStrategy(query) ==
    LET intent ==
            <<"short_term">>
            \o (IF AnyWordIn(query, {"who", "what", "where", "when", "remember"})
                THEN <<"semantic">> ELSE <<>>)
            \o (IF AnyWordIn(query, {"concept", "idea", "summary", "overview", "link"})
                THEN <<"conceptual">> ELSE <<>>)
            \o (IF AnyWordIn(query, {"my", "prefer", "want"})
                THEN <<"user_context">> ELSE <<>>)
            \o (IF AnyWordIn(query, {"file", "note", "document", "folder", "markdown"})
                THEN <<"structural">> ELSE <<>>)
    IN  IF Len(intent) = 1 THEN intent \o <<"semantic", "conceptual">> ELSE intent

\* history[-2:]
LastTwo(history) ==
    SubSeq(history, IF Len(history) > 2 THEN Len(history) - 1 ELSE 1, Len(history))

\* history[-4:]
LastFour(history) ==
    SubSeq(history, IF Len(history) > 4 THEN Len(history) - 3 ELSE 1, Len(history))

\* [history[idx] for idx in indices if idx < len(history)]
RECURSIVE MessagesAt(_, _)
MessagesAt(history, indices) ==
    IF indices = <<>> THEN <<>>
    ELSE (IF Head(indices) < Len(history) THEN <<history[Head(indices) + 1]>> ELSE <<>>)
         \o MessagesAt(history, Tail(indices))

\* the indices of a set, in ascending order
Ascending(S, n) == SelectSeq([i \in 1..n |-> i - 1], LAMBDA i : i \in S)

\* the index lists vector_index.search(query_vec, k) can give: k distinct
\* stored vectors, or all of them when fewer than k are stored.  The order of
\* the hits does not reach the caller (_rank_and_filter sorts the messages),
\* so each set of hits is taken in one order.
SemanticHits(m, k) ==
    LET n == IF m.ntotal < k THEN m.ntotal ELSE k
    IN  {Ascending(S, m.ntotal) : S \in {T \in SUBSET (0..(m.ntotal - 1)) : Cardinality(T) = n}}

\* MemoryModule._search_semantic(query, k = 3), for the hits the index gives
SearchSemantic(m, hits) ==
    IF m.history = <<>> \/ m.ntotal = 0 THEN <<>> ELSE MessagesAt(m.history, hits)

\* `concept.lower() in query_lower`
ConceptInQuery(concept, query) == \E i \in 1..Len(query) : Lower(query[i]) = Lower(concept)

RECURSIVE SearchConceptualOver(_, _, _)
SearchConceptualOver(m, query, order) ==
    IF order = <<>> THEN <<>>
    ELSE (IF ConceptInQuery(Head(order), query)
          THEN MessagesAt(m.history, m.concept_index[Head(order)])
          ELSE <<>>)
         \o SearchConceptualOver(m, query, Tail(order))

\* MemoryModule._search_conceptual(query); concept_index.items() follows the
\* order in which the keys were inserted
SearchConceptual(m, query) ==
    SearchConceptualOver(m, query, m.concept_order)

InStrategies(name, strategies) == \E i \in 1..Len(strategies) : strategies[i] = name

\* MemoryModule._consult_memories(query, strategies), for the hits the vector
\* index gives
ConsultMemories(m, query, strategies, hits) ==
    [short_term |-> IF InStrategies("short_term", strategies)
                    THEN LastFour(m.history) ELSE <<>>,
     semantic |-> IF InStrategies("semantic", strategies) /\ m.semantic
                  THEN SearchSemantic(m, hits) ELSE <<>>,
     conceptual |-> IF InStrategies("conceptual", strategies)
                    THEN SearchConceptual(m, query) ELSE <<>>,
     user_context |-> IF InStrategies("user_context", strategies) /\ m.user_context # EmptyDict
                      THEN <<m.user_context>> ELSE <<>>,
     structural |-> <<>>]

\* the loop of _rank_and_filter: the first message of each content
RECURSIVE Deduplicate(_, _)
Deduplicate(messages, seen_content) ==
    IF messages = <<>> THEN <<>>
    ELSE IF Head(messages).content \in seen_content
         THEN Deduplicate(Tail(messages), seen_content)
         ELSE <<Head(messages)>>
              \o Deduplicate(Tail(messages), seen_content \cup {Head(messages).content})

\* self.history.index(msg)
HistoryIndex(history, msg) ==
    (CHOOSE i \in 1..Len(history) :
        history[i] = msg /\ \A j \in 1..(i - 1) : history[j] # msg) - 1

\* all_messages.sort(key=get_msg_index): every message comes from history, and
\* two different messages have different indices
SortByIndex(history, messages) ==
    LET keys == {HistoryIndex(history, messages[i]) : i \in 1..Len(messages)}
        sorted == SelectSeq([i \in 1..Len(history) |-> i - 1], LAMBDA i : i \in keys)
    IN  [j \in 1..Len(sorted) |-> history[sorted[j] + 1]]

\* MemoryModule._rank_and_filter(raw_memories, query), then _format_context
RankAndFilter(m, raw_memories) ==
    SortByIndex(m.history,
        Deduplicate(raw_memories.short_term \o raw_memories.semantic
                    \o raw_memories.conceptual, {}))

\* MemoryModule._extract_new_knowledge(question, answer): the set of concepts
\* (knowledge has no "concepts" key when it is empty)
ExtractNewKnowledge(q, a) ==
    LET combined_text == q \o a
        potential_concepts ==
            {combined_text[i] : i \in {j \in 1..Len(combined_text) :
                                          combined_text[j] \in CapitalisedWords}}
    IN  potential_concepts \ Stoplist

\* a count that starts again at every update
ConceptCountRestarted(concepts, concept) == 1

\* `self.concepts[concept]["count"] += 1`, after the entry with count 0 has
\* been made for a new concept
ConceptCount(concepts, concept) ==
    (IF concept \in DOMAIN concepts THEN concepts[concept].count ELSE 0) + 1

\* `for idx in indices: if idx not in list: list.append(idx)`
RECURSIVE AppendNew(_, _)
AppendNew(list, indices) ==
    IF indices = <<>> THEN list
    ELSE AppendNew(IF \E i \in 1..Len(list) : list[i] = Head(indices)
                   THEN list ELSE Append(list, Head(indices)),
                   Tail(indices))

\* the orders in which `for concept in knowledge["concepts"]` can run (the list
\* is made from a set)
Orderings(S) ==
    {o \in [1..Cardinality(S) -> S] : \A i, j \in 1..Cardinality(S) : i # j => o[i] # o[j]}

\* MemoryModule._update_concepts(knowledge, indices), the concepts taken in
\* the order `order`
UpdateConcepts(m, order, indices) ==
    LET K == {order[i] : i \in 1..Len(order)}
        keys == DOMAIN m.concepts \cup K
    IN  [m EXCEPT
            !.concepts =
                [c \in keys |->
                    IF c \in K
                    THEN [count |-> ConceptCount(m.concepts, c),
                          first_seen |-> IF c \in DOMAIN m.concepts
                                         THEN m.concepts[c].first_seen
                                         ELSE Len(m.history)]
                    ELSE m.concepts[c]],
            !.concept_index =
                [c \in keys |->
                    IF c \in K
                    THEN AppendNew(IF c \in DOMAIN m.concept_index
                                   THEN m.concept_index[c] ELSE <<>>, indices)
                    ELSE m.concept_index[c]],
            !.concept_order =
                @ \o SelectSeq(order, LAMBDA c : c \notin DOMAIN m.concept_index)]

\* a history that is never trimmed
TrimNever(history, max_history) == history

\* `if len(self.history) > self.max_history * 2`: pop(0) twice
Trim(history, max_history) ==
    IF Len(history) > max_history * 2 THEN Tail(Tail(history)) ELSE history

\* MemoryModule.update(question, answer), the concepts taken in the order `order`
UpdateMemory(m, q, a, order) ==
    LET user_idx == Len(m.history)
        asst_idx == Len(m.history) + 1
        appended == [m EXCEPT
                        !.history = @ \o <<Message("user", q), Message("assistant", a)>>,
                        !.ntotal = IF m.semantic THEN @ + 2 ELSE @]
        indexed == UpdateConcepts(appended, order, <<user_idx, asst_idx>>)
    IN  [indexed EXCEPT !.history = Trim(@, m.max_history)]

\* a reset that keeps the concept index
ResetMemoryKeepingIndex(m) ==
    [NewMemory(m.max_history, m.semantic) EXCEPT
        !.concept_index = m.concept_index, !.concept_order = m.concept_order]

\* MemoryModule.initialize() and MemoryModule.clear(): the same assignments
\* (initialize also empties stored_vectors, which nothing reads)
ResetMemory(m) == NewMemory(m.max_history, m.semantic)

\* the state dict before process has run
NoState == [question |-> <<>>, has_memory_context |-> FALSE, memory_context |-> <<>>]

InitMemory ==
    /\ \E max_history \in 0..MaxHistory, semantic \in BOOLEAN :
          memory = NewMemory(max_history, semantic)
    /\ state = NoState
    /\ turns = <<>>

\* the memory module is not used
MemoryAtRest ==
    /\ memory = NewMemory(MaxHistory, FALSE)
    /\ state = NoState
    /\ turns = <<>>

\* one request of ObsidianAgent.ask: process runs once on the fresh state dict
\* of the request, update ends the request and its state dict is dropped
Update ==
    /\ Len(turns) < MaxUpdates
    /\ \E q \in UserTexts, a \in AnswerTexts :
          /\ \E order \in Orderings(ExtractNewKnowledge(q, a)) :
                memory' = UpdateMemory(memory, q, a, order)
          /\ turns' = Append(turns, [question |-> q, answer |-> a])
    /\ state' = NoState
    /\ UNCHANGED execVars
    /\ UNCHANGED plannerVars
    /\ UNCHANGED <<facadeVars, reflVars>>

Initialize ==
    /\ memory' = ResetMemory(memory)
    /\ turns' = <<>>
    /\ UNCHANGED state
    /\ UNCHANGED execVars
    /\ UNCHANGED plannerVars
    /\ UNCHANGED <<facadeVars, reflVars>>

Clear ==
    /\ memory' = ResetMemory(memory)
    /\ turns' = <<>>
    /\ UNCHANGED state
    /\ UNCHANGED execVars
    /\ UNCHANGED plannerVars
    /\ UNCHANGED <<facadeVars, reflVars>>

\* MemoryModule.process(state) on the state dict {"question": query}
Process ==
    /\ ~state.has_memory_context
    /\ \E query \in Queries :
          IF query = <<>>
          THEN state' = [NoState EXCEPT !.question = query]
          ELSE LET strategies == DecideConsultationStrategy(query)
               IN  \E hits \in IF InStrategies("semantic", strategies) /\ memory.semantic
                               THEN SemanticHits(memory, 3) ELSE {<<>>} :
                      state' = [question |-> query,
                                has_memory_context |-> TRUE,
                                memory_context |->
                                    RankAndFilter(memory,
                                        ConsultMemories(memory, query, strategies, hits))]
    /\ UNCHANGED <<memory, turns>>
    /\ UNCHANGED execVars
    /\ UNCHANGED plannerVars
    /\ UNCHANGED <<facadeVars, reflVars>>

----------------------------------------------------------------------------
(* PlannerExecutorModule.process: one module, one request after another *)

\* the Plan object generate_plan returned, as a dict holds it: by reference.
\* The object is the variable plan, which execute_plan changes in place.
PlanRef == <<"#the Plan object">>

\* the state dicts process is called with: other keys, and question or not
Bags ==
    {[question |-> <<"find my todo list">>, session |-> <<"abc">>],
     [session |-> <<"abc">>]}

\* the replies of the model to the planner, in the requests of the module
FacadeReplies ==
    {[raises |-> TRUE, content |-> <<>>]}
    \cup {[raises |-> FALSE, content |-> <<d>>] :
             d \in {"find_read_answer", "read_unlinked"}}

\* state.get("question", "")
QuestionOf(b) == IF "question" \in DOMAIN b THEN b.question ELSE <<>>

\* a write-back that drops the keys it does not write
WriteBackOnly(b, res) ==
    [planning_results |->
        [plan |-> PlanRef, subtask_results |-> res.subtask_results,
         final_answer |-> res.final_answer, success |-> res.success],
     answer |-> res.final_answer]

\* state["planning_results"] = results; state["answer"] = results["final_answer"]
WriteBack(b, res) ==
    [k \in DOMAIN b \cup {"planning_results", "answer"} |->
        IF k = "planning_results"
        THEN [plan |-> PlanRef, subtask_results |-> res.subtask_results,
              final_answer |-> res.final_answer, success |-> res.success]
        ELSE IF k = "answer" THEN res.final_answer
        ELSE b[k]]

\* what the calls of the run did: no call raised, every call raised
NoCallRaised ==
    /\ \A i \in DOMAIN toolCalls : \A k \in 1..Len(toolCalls[i]) : ~toolCalls[i][k].raised
    /\ \A i \in DOMAIN llmCalls :
          Len(llmCalls[i]) > 0 => plan.subtasks[i].status = "completed"
    /\ pc = "done" => results.final_answer.kind = "text"

EveryCallRaised ==
    /\ \A i \in DOMAIN toolCalls : \A k \in 1..Len(toolCalls[i]) : toolCalls[i][k].raised
    /\ \A i \in DOMAIN llmCalls :
          Len(llmCalls[i]) > 0 => plan.subtasks[i].status = "failed"
    /\ pc = "done" => results.final_answer.kind = "fallback"

\* the behaviours of the tools and of the model the run is a run of
Behaviours ==
    {b \in {"returns", "raises"} :
        (b = "returns" => NoCallRaised) /\ (b = "raises" => EveryCallRaised)}

\* the request that has just ended: what it was given and what came of it
RunSummary ==
    [question |-> question, reply |-> llmReply, behaviours |-> Behaviours,
     ended |-> pc, plan |-> plan, results |-> results, state |-> bag]

FacadeAtRest ==
    /\ bag = NoParams
    /\ facade = [at |-> "idle", remembered |-> {}, between |-> FALSE]

\* the module after PlannerExecutorModule.__init__, no request yet
InitFacade ==
    /\ FacadeAtRest
    /\ cfg \in [max_retries : {MaxRetries}, verification_mode : Modes]
    /\ question = <<>>
    /\ llmReply = [raises |-> TRUE, content |-> <<>>]
    /\ planOut = NotReturned
    /\ plan = NoPlan
    /\ results = NewResults
    /\ pc = "idle"
    /\ idx = 0
    /\ attempt = 0
    /\ params = NoParams
    /\ raised = NoneVal
    /\ toolCalls = <<>>
    /\ llmCalls = <<>>
    /\ synthCalls = 0

\* process(state) is called, the request before (if any) being over:
\* question = state.get("question", "").  A request in which the calls all
\* returned or all raised is remembered, or not, for the comparison with a
\* later one.
ProcessCalled ==
    /\ facade.at \in {"idle", "returned", "raised"}
    /\ \E b \in Bags, reply \in FacadeReplies :
          /\ bag' = b
          /\ question' = QuestionOf(b)
          /\ llmReply' = reply
    /\ planOut' = NotReturned
    /\ \/ facade' = [facade EXCEPT !.at = "planning",
                                   !.between = (facade.remembered # {} /\ facade.at # "idle")]
       \/ /\ facade.at # "idle"
          /\ Behaviours # {}
          /\ facade' = [at |-> "planning", remembered |-> {RunSummary}, between |-> FALSE]
    /\ UNCHANGED <<execVars, memVars, reflVars>>

\* plan = self.planner.generate_plan(question)
ProcessPlan ==
    /\ facade.at = "planning"
    /\ GeneratePlan

\* state["plan"] = plan, and execute_plan(plan, question) is entered
StorePlan ==
    /\ facade.at = "planning"
    /\ planOut.returned
    /\ bag' = [k \in DOMAIN bag \cup {"plan"} |-> IF k = "plan" THEN PlanRef ELSE bag[k]]
    /\ facade' = [facade EXCEPT !.at = "executing"]
    /\ plan' = planOut.plan
    /\ pc' = "start"
    /\ idx' = 0
    /\ attempt' = 0
    /\ params' = NoParams
    /\ raised' = NoneVal
    /\ toolCalls' = [i \in 1..Len(planOut.plan.subtasks) |-> <<>>]
    /\ llmCalls' = [i \in 1..Len(planOut.plan.subtasks) |-> <<>>]
    /\ synthCalls' = 0
    /\ UNCHANGED <<cfg, results, plannerVars, memVars, reflVars>>

\* results = self.executor.execute_plan(plan, question), step by step
ProcessExecute ==
    /\ facade.at = "executing"
    /\ Next

\* execute_plan has returned: the two other keys are written, state returned
ProcessReturn ==
    /\ facade.at = "executing"
    /\ pc = "done"
    /\ bag' = WriteBack(bag, results)
    /\ facade' = [facade EXCEPT !.at = "returned"]
    /\ UNCHANGED <<execVars, plannerVars, memVars, reflVars>>

\* execute_plan was left by an exception, and so is process
ProcessRaised ==
    /\ facade.at = "executing"
    /\ pc = "raised"
    /\ facade' = [facade EXCEPT !.at = "raised"]
    /\ UNCHANGED <<bag, execVars, plannerVars, memVars, reflVars>>

----------------------------------------------------------------------------
(* ReflectionModule.process and the refinement loop of ObsidianAgent.ask *)

\* a key the state dict does not have
Absent == <<"#absent">>


\* the answers agent.invoke returns: no text, a short text without a source,
\* a text of 60 characters that names a note, a short refusal
ShortAnswer == <<"see", Blank, "notes">>

CitedAnswer == <<"selon", Blank, "todo.md", Blank, "(text)">>

Refusal == <<"not found">>

Candidates == {<<>>, ShortAnswer, CitedAnswer, Refusal}

\* len(answer), for the answers of the model
Chars(answer) ==
    CASE answer = <<>> -> 0
      [] answer = ShortAnswer -> 9
      [] answer = Refusal -> 9
      [] answer = CitedAnswer -> 60

\* scores are counted in tenths: 7 is 0.7
Clip(x) == IF x < 0 THEN 0 ELSE IF x > 10 THEN 10 ELSE x

\* ReflectionModule._heuristic_evaluation(question, answer, docs)["overall_score"]
HeuristicScore(answer) ==
    LET base == 5
        short == IF Chars(answer) < 30 THEN -3 ELSE 0
        non == IF Contains(answer, "not found") THEN -4 ELSE 0
        cited == IF \E t \in {".md", "[[", "source:", "selon"} : Contains(answer, t)
                 THEN 2 ELSE -2
        long == IF Chars(answer) > 100 THEN 2 ELSE 0
    IN  Clip(base + short + non + cited + long)

\* the overall scores the critique of the model gives, and the evaluation
\* when the call or the decoding of its reply raises
LLMScores == {2, 5, 7, 9}

Evaluations(answer) == LLMScores \cup {HeuristicScore(answer)}

\* f"{score:.2f}"
ScoreTok(score) ==
    CASE score = 0 -> "0.00" [] score = 1 -> "0.10" [] score = 2 -> "0.20"
      [] score = 3 -> "0.30" [] score = 4 -> "0.40" [] score = 5 -> "0.50"
      [] score = 6 -> "0.60" [] score = 7 -> "0.70" [] score = 8 -> "0.80"
      [] score = 9 -> "0.90" [] score = 10 -> "1.00"

\* ReflectionModule._format_flagged_answer(candidate, evaluation)
FormatFlaggedAnswer(candidate, score) ==
    <<"Reponse non verifiee (score: ", ScoreTok(score), ")", NL>> \o candidate
        \o <<NL, "Cette reponse n'a pas atteint le seuil de qualite requis.">>

\* ReflectionModule._build_refinement_prompt(question, candidate, evaluation, docs)
BuildRefinementPrompt(candidate, score) ==
    <<"Ta reponse precedente necessite des ameliorations.", NL>> \o candidate

\* a comparison that rejects a score equal to the threshold
ApprovesAbove(score, threshold) == score > threshold

\* `if score >= self.acceptance_threshold`
Approves(score, threshold) == score >= threshold

\* `if iteration < self.max_iterations`
IterationsRemain(iteration, max_iterations) == iteration < max_iterations

\* state.get("reflection_iteration", 0); ask puts the key in the state
IterationOf(st) == st.reflection_iteration

\* ReflectionModule.process(state), the evaluation having given `score`
ReflectionProcess(st, score) ==
    IF st.candidate_answer = Absent \/ st.candidate_answer = <<>> THEN st
    ELSE
      LET candidate == st.candidate_answer
          iteration == IterationOf(st)
          logged == [st EXCEPT !.reflection_history =
                        Append(@, [iteration |-> iteration, score |-> score,
                                   candidate |-> candidate])]
      IN  IF Approves(score, rcfg.acceptance_threshold)
          THEN [logged EXCEPT !.final_answer = candidate, !.reflection = score]
          ELSE IF IterationsRemain(iteration, rcfg.max_iterations)
          THEN [logged EXCEPT !.refinement_needed = TRUE,
                              !.refinement_prompt = BuildRefinementPrompt(candidate, score),
                              !.reflection_iteration = iteration + 1]
          ELSE [logged EXCEPT !.final_answer = FormatFlaggedAnswer(candidate, score),
                              !.reflection = score]

\* state = {"question": question, "reflection_iteration": 0}
NewAskState ==
\* (refinement_needed holds state.get("refinement_needed", False))
    [reflection_iteration |-> 0, candidate_answer |-> Absent,
     refinement_needed |-> FALSE, refinement_prompt |-> Absent,
     final_answer |-> Absent, reflection |-> -1, reflection_history |-> <<>>]

NotAsked == [pc |-> "idle", iteration |-> 0, answer |-> Absent, prompt |-> Absent,
             invocations |-> 0, returned |-> Absent]

ReflectionAtRest ==
    /\ rcfg = [max_iterations |-> MaxIterations, acceptance_threshold |-> 7]
    /\ rstate = NewAskState
    /\ askv = NotAsked

\* ask in standard mode, reflection enabled, at the top of its loop
InitAsk ==
    /\ rcfg \in [max_iterations : 0..MaxIterations, acceptance_threshold : {5, 7}]
    /\ rstate = NewAskState
    /\ askv = [NotAsked EXCEPT !.pc = "loop"]

\* one pass of `for iteration in range(max_iterations + 1)` up to the call of
\* the reflection module: the prompt, agent.invoke, the candidate stored
AgentInvoke ==
    /\ askv.pc = "loop"
    /\ askv.iteration <= rcfg.max_iterations
    /\ \E answer \in Candidates :
          /\ askv' = [askv EXCEPT
                !.pc = "reflect",
                !.answer = answer,
                !.prompt = IF askv.iteration = 0 \/ rstate.refinement_prompt = Absent
                           THEN <<"question">> ELSE rstate.refinement_prompt,
                !.invocations = @ + 1]
          /\ rstate' = [rstate EXCEPT !.candidate_answer = answer,
                                      !.reflection_iteration = askv.iteration]
    /\ UNCHANGED <<rcfg, execVars, plannerVars, memVars, facadeVars>>

\* state = self.modules["reflection"].process(state)
Reflect ==
    /\ askv.pc = "reflect"
    /\ \E score \in Evaluations(rstate.candidate_answer) :
          rstate' = ReflectionProcess(rstate, score)
    /\ askv' = [askv EXCEPT !.pc = "check"]
    /\ UNCHANGED <<rcfg, execVars, plannerVars, memVars, facadeVars>>

\* `if not state.get("refinement_needed", False): break`, else the flag is
\* reset and the loop goes on
CheckRefinement ==
    /\ askv.pc = "check"
    /\ IF rstate.refinement_needed = TRUE
       THEN /\ rstate' = [rstate EXCEPT !.refinement_needed = FALSE]
            /\ askv' = [askv EXCEPT !.pc = "loop", !.iteration = @ + 1]
       ELSE /\ askv' = [askv EXCEPT !.pc = "after"]
            /\ UNCHANGED rstate
    /\ UNCHANGED <<rcfg, execVars, plannerVars, memVars, facadeVars>>

\* after the loop, left by break or run to its end:
\* final_answer = state.get("final_answer", answer), returned as "answer"
ReturnAnswer ==
    /\ \/ askv.pc = "after"
       \/ askv.pc = "loop" /\ askv.iteration > rcfg.max_iterations
    /\ askv' = [askv EXCEPT
          !.pc = "returned",
          !.returned = IF rstate.final_answer = Absent THEN askv.answer
                       ELSE rstate.final_answer]
    /\ UNCHANGED <<rcfg, rstate, execVars, plannerVars, memVars, facadeVars>>

----------------------------------------------------------------------------
(* The facade: PlannerExecutorModule.process *)

\* the keys process writes
WrittenKeys == {"plan", "planning_results", "answer"}

\* a step of process, from its call to its return (not the call itself,
\* which brings the state dict of the next request)
WithinProcess == ~(facade.at # "planning" /\ facade'.at = "planning")

ProcessReturned == facade.at = "returned"

ProcessOver == facade.at \in {"returned", "raised"}

\* C35: process writes the keys plan, planning_results and answer and no
\* other: every other key of the state, question among them, is kept with
\* its value, and no key is added or removed. When process has returned,
\* the three keys are there, state.plan and planning_results.plan are the one
\* Plan object that generate_plan returned and execute_plan ran, and
\* state.answer is planning_results.final_answer.
C35_FacadeEffect ==
    /\ [][WithinProcess =>
            /\ DOMAIN bag \subseteq DOMAIN bag'
            /\ DOMAIN bag' \subseteq DOMAIN bag \cup WrittenKeys
            /\ \A k \in DOMAIN bag \ WrittenKeys : bag'[k] = bag[k]
       ]_vars
    /\ [](ProcessReturned =>
            /\ WrittenKeys \subseteq DOMAIN bag
            /\ bag.plan = PlanRef
            /\ bag.planning_results.plan = bag.plan
            /\ plan.goal = planOut.plan.goal
            /\ Len(plan.subtasks) = Len(planOut.plan.subtasks)
            /\ plan.status \in {"completed", "failed"}
            /\ bag.planning_results.subtask_results = results.subtask_results
            /\ bag.planning_results.final_answer = results.final_answer
            /\ bag.answer = bag.planning_results.final_answer
            /\ QuestionOf(bag) = question)

\* process has returned the state of a request with a question, after a
\* plan of three sub-tasks the first of which failed
C35_Witness ==
    /\ ProcessReturned
    /\ DOMAIN bag = {"question", "session"} \cup WrittenKeys
    /\ Len(plan.subtasks) = 3
    /\ plan.subtasks[1].status = "failed"
    /\ bag.answer.kind = "text"

\* the remembered request had the question, the reply of the model to the
\* planner and the behaviour of the tools and of the model of this one
SameInputs(r) ==
    /\ r.question = question
    /\ r.reply = llmReply
    /\ r.behaviours \cap Behaviours # {}

\* C36: two requests to one module with the same question and the same
\* behaviour of the tools and of text generation end alike, whatever was
\* processed before each of them: the same plan status, sub-task statuses,
\* results and answer.
C36_NoCrossRequestState ==
    ProcessOver =>
        \A r \in facade.remembered :
            SameInputs(r) =>
                /\ r.ended = pc
                /\ r.plan = plan
                /\ r.results = results
                /\ r.state = bag

\* a request with tool calls has ended like a remembered one with the same
\* inputs, another request having been processed between the two
C36_Witness ==
    /\ ProcessReturned
    /\ facade.between
    /\ \E r \in facade.remembered : SameInputs(r) /\ r.plan = plan
    /\ \E i \in DOMAIN toolCalls : toolCalls[i] # <<>>
    /\ Len(plan.subtasks) = 3

----------------------------------------------------------------------------
(* Reflection and the refinement loop *)

\* the entry process has just appended to reflection_history
LastEntry(st) == st.reflection_history[Len(st.reflection_history)]

\* a step of ReflectionModule.process on a candidate that is not empty
Reflecting ==
    /\ askv.pc = "reflect"
    /\ askv'.pc = "check"
    /\ rstate.candidate_answer # <<>>

\* C39: for a candidate that is not empty, process appends exactly one entry
\* to reflection_history and takes exactly one of three outcomes. With
\* score >= acceptance_threshold, final_answer is the candidate as it was and
\* no refinement is requested. Otherwise with reflection_iteration <
\* max_iterations, refinement_needed and refinement_prompt are set,
\* reflection_iteration grows by 1 and final_answer is not set. Otherwise
\* final_answer is the flagged form of the candidate.
C39_ReflectionDecision ==
    [][Reflecting =>
        LET candidate == rstate.candidate_answer
            iteration == rstate.reflection_iteration
            before == rstate.reflection_history
            after == rstate'.reflection_history
        IN  /\ Len(after) = Len(before) + 1
            /\ SubSeq(after, 1, Len(before)) = before
            /\ LastEntry(rstate').candidate = candidate
            /\ LastEntry(rstate').iteration = iteration
            /\ rstate'.candidate_answer = candidate
            /\ LET score == LastEntry(rstate').score
               IN  IF score >= rcfg.acceptance_threshold
                   THEN /\ rstate'.final_answer = candidate
                        /\ rstate'.refinement_needed = rstate.refinement_needed
                        /\ rstate'.refinement_prompt = rstate.refinement_prompt
                        /\ rstate'.reflection_iteration = iteration
                   ELSE IF iteration < rcfg.max_iterations
                   THEN /\ rstate'.refinement_needed = TRUE
                        /\ rstate'.refinement_prompt = BuildRefinementPrompt(candidate, score)
                        /\ rstate'.reflection_iteration = iteration + 1
                        /\ rstate'.final_answer = rstate.final_answer
                   ELSE /\ rstate'.final_answer = FormatFlaggedAnswer(candidate, score)
                        /\ rstate'.refinement_needed = rstate.refinement_needed
                        /\ rstate'.refinement_prompt = rstate.refinement_prompt
                        /\ rstate'.reflection_iteration = iteration
    ]_vars

\* a second candidate was evaluated exactly at the threshold and approved,
\* after the first one was sent back
C39_Witness ==
    /\ askv.pc = "check"
    /\ Len(rstate.reflection_history) = 2
    /\ LastEntry(rstate).score = rcfg.acceptance_threshold
    /\ rstate.reflection_history[1].score < rcfg.acceptance_threshold
    /\ rstate.final_answer = rstate.candidate_answer
    /\ rstate.reflection_iteration = 1

\* ask has returned
Answered == askv.pc = "returned"

\* the last candidate was evaluated by the reflection module
LastCandidateEvaluated ==
    /\ rstate.reflection_history # <<>>
    /\ LastEntry(rstate).candidate = askv.answer
    /\ LastEntry(rstate).iteration = askv.iteration

ApprovedUnchanged ==
    /\ LastCandidateEvaluated
    /\ LastEntry(rstate).score >= rcfg.acceptance_threshold
    /\ askv.returned = askv.answer

FlaggedLast ==
    /\ LastCandidateEvaluated
    /\ LastEntry(rstate).score < rcfg.acceptance_threshold
    /\ askv.returned = FormatFlaggedAnswer(askv.answer, LastEntry(rstate).score)

\* C40: ask invokes the agent at most max_iterations + 1 times, and the
\* answer it returns is a candidate the reflection module approved, as it
\* was, or the flagged form of the last candidate.
C40_BoundedAndDecided ==
    /\ askv.invocations <= rcfg.max_iterations + 1
    /\ Answered => ApprovedUnchanged \/ FlaggedLast

----------------------------------------------------------------------------
(* Specifications *)

\* execute_plan on a plan of the family, the planner at rest
Init ==
    /\ InitExecutor
    /\ question = <<"find my todo list">>
    /\ llmReply = [raises |-> TRUE, content |-> <<>>]
    /\ planOut = NotReturned
    /\ MemoryAtRest
    /\ FacadeAtRest
    /\ ReflectionAtRest

Spec == Init /\ [][Next]_vars

\* the shapes of the plans with dangling, self and cyclic dependencies, a
\* tool-less step, a missing tool and a tool that is retried
LiveShapes ==
    {ShapeOf(NoneVal, "none", "none"),
     ShapeOf("ghost_tool", "none", "from_task"),
     ShapeOf("search_notes", "none", "literal"),
     ShapeOf("read_note", "prev", "from_task"),
     ShapeOf("search_notes", "self", "literal"),
     ShapeOf("search_notes", "next", "literal")}

InitLive ==
    /\ \E n \in 0..MaxSubtasks :
         \E shapes \in [1..n -> LiveShapes] : plan = PlanOf(n, "distinct", shapes)
    /\ cfg \in [max_retries : 0..MaxRetries, verification_mode : Modes]
    /\ results = NewResults
    /\ pc = "start"
    /\ idx = 0
    /\ attempt = 0
    /\ params = NoParams
    /\ raised = NoneVal
    /\ toolCalls = [i \in 1..Len(plan.subtasks) |-> <<>>]
    /\ llmCalls = [i \in 1..Len(plan.subtasks) |-> <<>>]
    /\ synthCalls = 0
    /\ question = <<"find my todo list">>
    /\ llmReply = [raises |-> TRUE, content |-> <<>>]
    /\ planOut = NotReturned
    /\ MemoryAtRest
    /\ FacadeAtRest
    /\ ReflectionAtRest

\* execute_plan when every call it makes returns or raises: each step that is
\* possible is eventually taken
SpecLive == InitLive /\ [][Next]_vars /\ WF_vars(Next)

\* generate_plan on a reply, the executor at rest
InitPlannerOnly ==
    /\ InitPlanner
    /\ plan = NoPlan
    /\ cfg = [max_retries |-> MaxRetries, verification_mode |-> "flexible"]
    /\ results = NewResults
    /\ pc = "idle"
    /\ idx = 0
    /\ attempt = 0
    /\ params = NoParams
    /\ raised = NoneVal
    /\ toolCalls = <<>>
    /\ llmCalls = <<>>
    /\ synthCalls = 0
    /\ MemoryAtRest
    /\ FacadeAtRest
    /\ ReflectionAtRest

NextPlanner == GeneratePlan

SpecPlanner == InitPlannerOnly /\ [][NextPlanner]_vars

\* update, process, initialize and clear on a MemoryModule, the planner and
\* the executor at rest
InitMemoryOnly ==
    /\ InitMemory
    /\ question = <<"find my todo list">>
    /\ llmReply = [raises |-> TRUE, content |-> <<>>]
    /\ planOut = NotReturned
    /\ plan = NoPlan
    /\ cfg = [max_retries |-> MaxRetries, verification_mode |-> "flexible"]
    /\ results = NewResults
    /\ pc = "idle"
    /\ idx = 0
    /\ attempt = 0
    /\ params = NoParams
    /\ raised = NoneVal
    /\ toolCalls = <<>>
    /\ llmCalls = <<>>
    /\ synthCalls = 0
    /\ FacadeAtRest
    /\ ReflectionAtRest

NextMemory ==
    \/ Update
    \/ Initialize
    \/ Clear
    \/ Process

SpecMemory == InitMemoryOnly /\ [][NextMemory]_vars

\* ObsidianAgent.ask in standard mode with reflection enabled, everything
\* else at rest
InitReflectionOnly ==
    /\ InitAsk
    /\ question = <<"find my todo list">>
    /\ llmReply = [raises |-> TRUE, content |-> <<>>]
    /\ planOut = NotReturned
    /\ plan = NoPlan
    /\ cfg = [max_retries |-> MaxRetries, verification_mode |-> "flexible"]
    /\ results = NewResults
    /\ pc = "idle"
    /\ idx = 0
    /\ attempt = 0
    /\ params = NoParams
    /\ raised = NoneVal
    /\ toolCalls = <<>>
    /\ llmCalls = <<>>
    /\ synthCalls = 0
    /\ MemoryAtRest
    /\ FacadeAtRest

\* PlannerExecutorModule.process, request after request, the rest at rest
InitFacadeOnly ==
    /\ InitFacade
    /\ MemoryAtRest
    /\ ReflectionAtRest

NextFacade ==
    \/ ProcessCalled
    \/ ProcessPlan
    \/ StorePlan
    \/ ProcessExecute
    \/ ProcessReturn
    \/ ProcessRaised

SpecFacade == InitFacadeOnly /\ [][NextFacade]_vars

NextReflection ==
    \/ AgentInvoke
    \/ Reflect
    \/ CheckRefinement
    \/ ReturnAnswer

SpecReflection == InitReflectionOnly /\ [][NextReflection]_vars

----------------------------------------------------------------------------
(* Vocabulary of the properties *)

NumSubtasks == Len(plan.subtasks)

Positions == 1..NumSubtasks

\* the call is over: it returned, or an exception left it
Returned == pc = "done"

Ended == pc \in {"done", "raised"}

DistinctIds ==
    \A i, j \in Positions : i # j => plan.subtasks[i].id # plan.subtasks[j].id

\* the sub-task at position b lists the id of the sub-task at position a
Lists(b, a) ==
    \E k \in 1..Len(plan.subtasks[b].dependencies) :
        plan.subtasks[b].dependencies[k] = plan.subtasks[a].id

\* neither a tool nor the model was invoked for the sub-task at position i
NeverInvoked(i) == toolCalls[i] = <<>> /\ llmCalls[i] = <<>>

SkippedForDependencies(i) ==
    plan.subtasks[i].status = "failed" /\ plan.subtasks[i].error = DepsError

Untouched(i) ==
    /\ plan.subtasks[i].status = "pending"
    /\ plan.subtasks[i].result = NoneSeq
    /\ plan.subtasks[i].error = NoneSeq
    /\ NeverInvoked(i)

\* a tool-backed sub-task that was executed and failed
ToolFailed(i) ==
    /\ plan.subtasks[i].tool # NoneVal
    /\ plan.subtasks[i].status = "failed"
    /\ plan.subtasks[i].error # DepsError

\* every call of the tool for position i raised
AllCallsRaised(i) == \A k \in 1..Len(toolCalls[i]) : toolCalls[i][k].raised

\* the reply of the model to the planner, seen from outside
ReplyDecodes == ~llmReply.raises /\ IsJson(StripFences(llmReply.content))

ReplyIsValidPlan ==
    /\ ReplyDecodes
    /\ JsonLoads(StripFences(llmReply.content)).type = "dict"
    /\ {"goal", "subtasks"} \subseteq JsonLoads(StripFences(llmReply.content)).has
    /\ \A i \in 1..Len(JsonLoads(StripFences(llmReply.content)).subtasks) :
          ValidSubTask(JsonLoads(StripFences(llmReply.content)).subtasks[i])

----------------------------------------------------------------------------
(* Claims *)

\* C1: execute_plan never raises to its caller and, when it returns, its
\* final_answer is set.  Stated as it is claimed; the code violates it (Spec).
C1_AlwaysReturnsAnswer ==
    /\ raised = NoneVal
    /\ Returned => results.final_answer # NoAnswer

\* C2: generate_plan never raises and returns a Plan for every outcome of the
\* model call; when the call raised, the text does not decode, or the decoded
\* data violates the Plan schema, the Plan is the fallback plan (SpecPlanner).
C2_GeneratePlanNeverRaises ==
    planOut.returned =>
        /\ ~planOut.raises
        /\ ~ReplyIsValidPlan => planOut.plan = CreateFallbackPlan(question)
        /\ ReplyIsValidPlan =>
              planOut.plan.goal = JsonLoads(StripFences(llmReply.content)).goal

\* generate_plan has returned the fallback plan for a reply that decodes but
\* violates the schema (no goal, a sub-task without description, a list)
C2_Witness ==
    /\ planOut.returned
    /\ ReplyDecodes
    /\ ~ReplyIsValidPlan
    /\ planOut.plan = CreateFallbackPlan(question)

\* C3: the Plan generate_plan returns has at least one sub-task.  Stated as it
\* is claimed; the code violates it (SpecPlanner).
C3_PlanHasSubtask == planOut.returned => Len(planOut.plan.subtasks) >= 1

\* C4: when the reply is not parseable structured data, generate_plan returns
\* the fallback shape: goal = question, status pending, one sub-task, pending,
\* without tool, with empty parameters and empty dependencies (SpecPlanner).
C4_FallbackShape ==
    (planOut.returned /\ ~llmReply.raises /\ ~ReplyDecodes) =>
        /\ planOut.plan.goal = question
        /\ planOut.plan.status = "pending"
        /\ Len(planOut.plan.subtasks) = 1
        /\ planOut.plan.subtasks[1].status = "pending"
        /\ planOut.plan.subtasks[1].tool = NoneVal
        /\ DOMAIN planOut.plan.subtasks[1].parameters = {}
        /\ planOut.plan.subtasks[1].dependencies = <<>>

\* generate_plan has returned for a reply that is prose
C4_Witness ==
    /\ planOut.returned
    /\ ~llmReply.raises
    /\ llmReply.content \in ProseTexts
    /\ llmReply.content # <<>>

\* C5 as claimed: whenever B lists A, A precedes B and A ended failed, then
\* after execute_plan B is failed with "Dependencies not satisfied" and was
\* never invoked, in every verification mode.  On plans with distinct ids the
\* code violates it in strict mode (Spec).
C5_FailurePropagates ==
    (Returned /\ DistinctIds) =>
        \A a, b \in Positions :
            (a < b /\ Lists(b, a) /\ plan.subtasks[a].status = "failed") =>
                SkippedForDependencies(b) /\ NeverInvoked(b)

\* C5 amended: on a plan with distinct ids, if B lists A, A precedes B and A
\* is failed, then B is never invoked; B is failed with "Dependencies not
\* satisfied" once the walk has passed it, and is untouched (pending) as long
\* as the walk has not reached it, which is where a walk that stops before B
\* leaves it (Spec).
C5_FailurePropagatesWhenVisited ==
    DistinctIds =>
        \A a, b \in Positions :
            (a < b /\ Lists(b, a) /\ plan.subtasks[a].status = "failed") =>
                /\ NeverInvoked(b)
                /\ idx > b => SkippedForDependencies(b)
                /\ idx <= b => Untouched(b)

\* flexible mode, returned: A was executed and failed, B lists A and was skipped
C5_Witness ==
    /\ Returned
    /\ DistinctIds
    /\ cfg.verification_mode = "flexible"
    /\ \E a, b \in Positions :
          /\ a < b
          /\ Lists(b, a)
          /\ plan.subtasks[a].status = "failed"
          /\ plan.subtasks[a].error # DepsError
          /\ SkippedForDependencies(b)

\* C6: max_retries is the total number of attempts: a tool is never invoked
\* more than max_retries times for a sub-task, and when it has been invoked
\* max_retries times and raised each time the sub-task is failed with the
\* text of the last exception, whatever a further call would have done (Spec).
C6_RetryBoundary ==
    \A i \in Positions :
        /\ Len(toolCalls[i]) <= cfg.max_retries
        /\ (toolCalls[i] # <<>> /\ Len(toolCalls[i]) = cfg.max_retries /\ AllCallsRaised(i)) =>
              /\ plan.subtasks[i].status = "failed"
              /\ plan.subtasks[i].error \in ExceptionTexts

\* max_retries = 2: a tool has raised twice and its sub-task is failed
C6_Witness ==
    /\ cfg.max_retries = 2
    /\ \E i \in Positions :
          /\ Len(toolCalls[i]) = 2
          /\ AllCallsRaised(i)
          /\ plan.subtasks[i].status = "failed"

\* C7: in strict mode, when a tool-backed sub-task failed, execute_plan
\* returns with plan.status = failed and success = false.  Stated as it is
\* claimed; the code violates it (Spec).
C7_StrictPlanFailed ==
    (Returned /\ cfg.verification_mode = "strict" /\ \E i \in Positions : ToolFailed(i)) =>
        /\ plan.status = "failed"
        /\ results.success = FALSE

\* C8: in strict mode every sub-task declared after a failed tool-backed
\* sub-task stays pending, without result or error, and is never invoked (Spec).
C8_StrictHalts ==
    cfg.verification_mode = "strict" =>
        \A i, j \in Positions : (i < j /\ ToolFailed(i)) => Untouched(j)

\* strict mode, returned: a tool-backed sub-task failed and one is declared after it
C8_Witness ==
    /\ Returned
    /\ cfg.verification_mode = "strict"
    /\ \E i, j \in Positions : i < j /\ ToolFailed(i) /\ Untouched(j)

\* C9: in flexible mode a failed sub-task never keeps a later sub-task from
\* being executed: when the call is over no sub-task is left pending, the
\* registered tool of a sub-task that declares no dependency has been invoked
\* (at least one attempt being configured), and a sub-task whose tool
\* call succeeded is completed.  Stated as it is claimed; the code violates it
\* (Spec).
C9_FlexibleKeepsWalking ==
    (Ended /\ cfg.verification_mode = "flexible" /\ cfg.max_retries >= 1) =>
        \A j \in Positions :
            /\ plan.subtasks[j].status # "pending"
            /\ (/\ plan.subtasks[j].tool \in ToolMap
                /\ plan.subtasks[j].dependencies = <<>>) =>
                  toolCalls[j] # <<>>
            /\ (toolCalls[j] # <<>> /\ ~toolCalls[j][Len(toolCalls[j])].raised) =>
                  plan.subtasks[j].status = "completed"

\* C10: in flexible mode the plan is never left at pending or executing: when
\* the call is over plan.status is completed, and success is true at the
\* return.  Stated as it is claimed; the code violates it (Spec).
C10_FlexibleCompleted ==
    (Ended /\ cfg.verification_mode = "flexible") =>
        /\ plan.status = "completed"
        /\ Returned => results.success = TRUE

\* a parameter value that is exactly from_task_N, and its N
ExactRef(v) == Len(v) = 2 /\ v[1] = "from_task_" /\ v[2] \in Digits

ExactRefId(v) == DigitVal(v[2])

\* a parameter value of the form $(task_N), and its N
LooseRef(v) ==
    /\ Len(v) = 6
    /\ v[1] = "$" /\ v[2] = "(" /\ v[3] \in TaskTokens /\ v[4] = "_"
    /\ v[5] \in Digits /\ v[6] = ")"

LooseRefId(v) == DigitVal(v[5])

\* sub-task n is recorded as completed in the results map
RecordedCompleted(n) ==
    /\ n \in DOMAIN results.subtask_results
    /\ results.subtask_results[n].status = "completed"

StoredResult(n) == results.subtask_results[n].result

\* the first line of a text, as it stands
FirstLine(s) == SplitFirst(s)

\* a text with one line is taken whole; of a text with several lines the first
\* line is taken, without the whitespace around it
FirstLineRule(s) == IF Contains(s, NL) THEN Strip(FirstLine(s)) ELSE s

\* the parameters of the current sub-task have been resolved
Resolved == pc = "invoke"

\* C11 as claimed: from_task_N, N recorded as completed, resolves to N's result
\* when it has one line and to its first line when it has several.  The code
\* violates it for a first line that ends or starts with whitespace (Spec).
C11_ExactBackReference ==
    Resolved =>
        \A k \in DOMAIN Current.parameters :
            LET v == Current.parameters[k]
            IN  (ExactRef(v) /\ RecordedCompleted(ExactRefId(v))) =>
                    params[k] = IF Contains(StoredResult(ExactRefId(v)), NL)
                                THEN FirstLine(StoredResult(ExactRefId(v)))
                                ELSE StoredResult(ExactRefId(v))

\* C11 amended: from_task_N, N recorded as completed, resolves to N's result
\* when it has one line and, when it has several, to its first line with the
\* leading and trailing whitespace removed (Spec).
C11_ExactBackReferenceStripped ==
    Resolved =>
        \A k \in DOMAIN Current.parameters :
            LET v == Current.parameters[k]
            IN  (ExactRef(v) /\ RecordedCompleted(ExactRefId(v))) =>
                    params[k] = FirstLineRule(StoredResult(ExactRefId(v)))

\* from_task_1 has been resolved to the first line of a result of two lines
C11_Witness ==
    /\ Resolved
    /\ \E k \in DOMAIN Current.parameters :
          /\ ExactRef(Current.parameters[k])
          /\ RecordedCompleted(ExactRefId(Current.parameters[k]))
          /\ Contains(StoredResult(ExactRefId(Current.parameters[k])), NL)
          /\ params[k] = <<"todo.md">>

IsFindThenRead ==
    /\ NumSubtasks = 2
    /\ plan.subtasks[1].id = 1
    /\ plan.subtasks[1].tool = "search_notes"
    /\ plan.subtasks[1].dependencies = <<>>
    /\ plan.subtasks[2].id = 2
    /\ plan.subtasks[2].tool = "read_note"
    /\ plan.subtasks[2].dependencies = <<1>>
    /\ "file_path" \in DOMAIN plan.subtasks[2].parameters
    /\ plan.subtasks[2].parameters.file_path = <<"from_task_", "1">>

\* the tool of the sub-task at position i returned, at its last call
ToolReturned(i) == toolCalls[i] # <<>> => ~toolCalls[i][Len(toolCalls[i])].raised

\* C13: find-then-read, at least one attempt configured, the search tool
\* returning todo.md (first of its lines) and the read tool returning text:
\* the read tool is invoked, with file_path = todo.md at each call, both
\* sub-tasks end completed and success is true (Spec).
C13_FindThenRead ==
    (Returned /\ IsFindThenRead /\ cfg.max_retries >= 1
        /\ ToolReturned(1) /\ ToolReturned(2)) =>
        /\ toolCalls[2] # <<>>
        /\ \A k \in 1..Len(toolCalls[2]) : toolCalls[2][k].args.file_path = <<"todo.md">>
        /\ plan.subtasks[1].status = "completed"
        /\ plan.subtasks[2].status = "completed"
        /\ results.success = TRUE

\* find-then-read has returned, the read tool having been given todo.md
C13_Witness ==
    /\ Returned
    /\ IsFindThenRead
    /\ toolCalls[1] # <<>> /\ ToolReturned(1)
    /\ toolCalls[2] # <<>> /\ ToolReturned(2)
    /\ toolCalls[2][Len(toolCalls[2])].args.file_path = <<"todo.md">>
    /\ plan.subtasks[2].result = ToolOutput("read_note")

\* the messages of the turns in order: question then answer of each
RECURSIVE TurnMessages(_)
TurnMessages(ts) ==
    IF ts = <<>> THEN <<>>
    ELSE <<[role |-> "user", content |-> Head(ts).question],
           [role |-> "assistant", content |-> Head(ts).answer]>> \o TurnMessages(Tail(ts))

\* the last n elements of a sequence
LastN(s, n) == SubSeq(s, Len(s) - n + 1, Len(s))

Smaller(a, b) == IF a < b THEN a ELSE b

\* number of turns the history holds
TurnsHeld == Len(memory.history) \div 2

\* C14: history never has more than 2 * max_history messages, and it is the
\* most recent turns in their order: the last messages of everything update
\* was given, as many turns as the bound lets in (SpecMemory).
C14_HistoryBounded ==
    /\ Len(memory.history) <= 2 * memory.max_history
    /\ Len(memory.history) = 2 * Smaller(Len(turns), memory.max_history)
    /\ memory.history = LastN(TurnMessages(turns), Len(memory.history))

\* more turns than max_history were given: the history starts at the question
\* of the oldest turn that is kept
C14_Witness ==
    /\ memory.max_history >= 1
    /\ Len(turns) > memory.max_history
    /\ Len(memory.history) = 2 * memory.max_history
    /\ memory.history[1].content = turns[Len(turns) - memory.max_history + 1].question
    /\ memory.history[1].content # turns[1].question

\* C15: the history has even length, its roles alternate user, assistant from
\* the first message on, and, when it keeps anything, its last two messages
\* are the question and the answer of the last update (SpecMemory).
C15_PairsAlternate ==
    /\ Len(memory.history) % 2 = 0
    /\ \A i \in 1..Len(memory.history) :
          memory.history[i].role = IF i % 2 = 1 THEN "user" ELSE "assistant"
    /\ (turns # <<>> /\ memory.max_history >= 1) =>
          /\ memory.history[Len(memory.history) - 1] =
                [role |-> "user", content |-> turns[Len(turns)].question]
          /\ memory.history[Len(memory.history)] =
                [role |-> "assistant", content |-> turns[Len(turns)].answer]

\* two turns are held, the last message being the last answer
C15_Witness ==
    /\ Len(turns) >= 2
    /\ Len(memory.history) >= 4
    /\ memory.history[Len(memory.history)].role = "assistant"
    /\ memory.history[Len(memory.history)].content = turns[Len(turns)].answer

\* what consulting short_term alone returns
ShortTerm(query) == ConsultMemories(memory, query, <<"short_term">>, <<>>).short_term

\* C16 as claimed: every query's strategy has short_term, short_term is the
\* last min(4, len(history)) messages in order, and after at least one update
\* its last element is the most recent answer.  The code violates it with
\* max_history = 0 (SpecMemory).
C16_ShortTermRecall ==
    \A query \in Queries :
        /\ InStrategies("short_term", DecideConsultationStrategy(query))
        /\ ShortTerm(query) = LastN(memory.history, Smaller(4, Len(memory.history)))
        /\ turns # <<>> =>
              /\ ShortTerm(query) # <<>>
              /\ ShortTerm(query)[Len(ShortTerm(query))] =
                    [role |-> "assistant", content |-> turns[Len(turns)].answer]

\* C16 amended: the last element is the most recent answer after at least one
\* update when max_history is at least 1 (SpecMemory).
C16_ShortTermRecallWhenKept ==
    \A query \in Queries :
        /\ InStrategies("short_term", DecideConsultationStrategy(query))
        /\ ShortTerm(query) = LastN(memory.history, Smaller(4, Len(memory.history)))
        /\ (turns # <<>> /\ memory.max_history >= 1) =>
              /\ ShortTerm(query) # <<>>
              /\ ShortTerm(query)[Len(ShortTerm(query))] =
                    [role |-> "assistant", content |-> turns[Len(turns)].answer]

\* the history holds three turns: short_term is its last four messages
C16_Witness ==
    /\ Len(memory.history) = 6
    /\ Len(ShortTerm(<<"test">>)) = 4
    /\ ShortTerm(<<"test">>)[1] = memory.history[3]
    /\ ShortTerm(<<"test">>)[4].content = turns[Len(turns)].answer

\* the concepts of a turn: the capitalised words of its question and answer
\* that are not on the stoplist
Occurs(w, text) == \E i \in 1..Len(text) : text[i] = w

ConceptsOfTurn(t) ==
    {c \in CapitalisedWords \ Stoplist : Occurs(c, t.question) \/ Occurs(c, t.answer)}

CountOf(m, c) == IF c \in DOMAIN m.concepts THEN m.concepts[c].count ELSE 0

\* C17: an update adds exactly 1 to the count of each concept of its turn,
\* however often it occurs there, and leaves every other count as it was; a
\* concept that was not known gets count 1 (SpecMemory).
C17_ConceptCounting ==
    [][turns' # turns /\ turns' # <<>> =>
        \A c \in CapitalisedWords :
            CountOf(memory', c) =
                CountOf(memory, c)
                + (IF c \in ConceptsOfTurn(turns'[Len(turns')]) THEN 1 ELSE 0)]_vars

\* Python, named in the question and in the answer of the last turn and in an
\* earlier turn, has count 2
C17_Witness ==
    /\ Len(turns) >= 2
    /\ Occurs("Python", turns[Len(turns)].question)
    /\ Occurs("Python", turns[Len(turns)].answer)
    /\ CountOf(memory, "Python") = 2
    /\ CountOf(memory, "Rust") = 0

\* the turns whose messages the history still holds
HeldTurns == {t \in 1..Len(turns) : t > Len(turns) - TurnsHeld}

IsMessageOf(msg, t) ==
    \/ msg = [role |-> "user", content |-> turns[t].question]
    \/ msg = [role |-> "assistant", content |-> turns[t].answer]

\* C18: a conceptual search for a query that names concept C returns only
\* messages of turns from which C was extracted, and at least one as long as
\* such a turn is in the history.  Stated as it is claimed; the code violates
\* it once the history has been trimmed (SpecMemory).
C18_ConceptualRecall ==
    \A c \in CapitalisedWords \ Stoplist :
        LET found == SearchConceptual(memory, <<Lower(c)>>)
        IN  /\ \A i \in 1..Len(found) :
                  \E t \in 1..Len(turns) :
                      c \in ConceptsOfTurn(turns[t]) /\ IsMessageOf(found[i], t)
            /\ (\E t \in HeldTurns : c \in ConceptsOfTurn(turns[t])) => found # <<>>

\* the fields initialize and clear assign are empty
IsReset(m) ==
    /\ m.history = <<>>
    /\ m.concepts = EmptyDict
    /\ m.concept_index = EmptyDict
    /\ m.user_context = EmptyDict

\* C19: initialize and clear leave history, concepts, concept_index and
\* user_context empty, whatever was stored, and process on a question put to a
\* module that has had no update since gives an empty memory_context
\* (SpecMemory).
C19_ResetEmpties ==
    [][/\ (Initialize \/ Clear) => IsReset(memory')
       /\ (turns = <<>> /\ state' # state /\ state'.has_memory_context) =>
             state'.memory_context = <<>>]_vars

\* the module has been reset after a request whose context was not empty
C19_Witness ==
    /\ turns = <<>>
    /\ IsReset(memory)
    /\ state.has_memory_context
    /\ state.memory_context # <<>>

\* the status of the sub-task at position i changes from a to b
Moves(i, a, b) == plan.subtasks[i].status = a /\ plan'.subtasks[i].status = b

\* C20 as claimed: a status changes only pending -> running, running ->
\* completed or running -> failed.  The code violates it (Spec).
C20_Lifecycle ==
    [][\A i \in Positions :
          plan'.subtasks[i].status # plan.subtasks[i].status =>
              \/ Moves(i, "pending", "running")
              \/ Moves(i, "running", "completed")
              \/ Moves(i, "running", "failed")]_vars

\* C20 amended: a status changes only pending -> running, running ->
\* completed, running -> failed, or pending -> failed with the error
\* "Dependencies not satisfied" for a sub-task whose dependencies are not
\* satisfied when it is visited; a terminal status is never left (Spec).
C20_LifecycleWithSkip ==
    [][\A i \in Positions :
          plan'.subtasks[i].status # plan.subtasks[i].status =>
              \/ Moves(i, "pending", "running")
              \/ Moves(i, "running", "completed")
              \/ Moves(i, "running", "failed")
              \/ /\ Moves(i, "pending", "failed")
                 /\ plan'.subtasks[i].error = DepsError
                 /\ ~CheckDependencies(plan.subtasks[i], results.subtask_results)
                 /\ NeverInvoked(i)]_vars

\* returned: one sub-task was run and is completed, another was skipped for
\* its dependencies
C20_Witness ==
    /\ Returned
    /\ \E i, j \in Positions :
          /\ plan.subtasks[i].status = "completed"
          /\ SkippedForDependencies(j)

\* C21: a result is set only on a completed sub-task and an error only on a
\* failed one; no sub-task has both, a pending or running one has neither (Spec).
C21_ResultAndErrorFollowStatus ==
    \A i \in Positions :
        /\ plan.subtasks[i].result # NoneSeq => plan.subtasks[i].status = "completed"
        /\ plan.subtasks[i].error # NoneSeq => plan.subtasks[i].status = "failed"
        /\ ~(plan.subtasks[i].result # NoneSeq /\ plan.subtasks[i].error # NoneSeq)

\* returned: a sub-task is completed with a result and no error, another is
\* failed with an error and no result
C21_Witness ==
    /\ Returned
    /\ \E i, j \in Positions :
          /\ plan.subtasks[i].status = "completed"
          /\ plan.subtasks[i].result # NoneSeq /\ plan.subtasks[i].error = NoneSeq
          /\ plan.subtasks[j].status = "failed"
          /\ plan.subtasks[j].error # NoneSeq /\ plan.subtasks[j].result = NoneSeq

\* every id the sub-task at position i depends on is in the results map with
\* status completed
DependenciesCompleted(i) ==
    \A k \in 1..Len(plan.subtasks[i].dependencies) :
        RecordedCompleted(plan.subtasks[i].dependencies[k])

\* the step invokes a tool or the model for the sub-task at position i
Invokes(i) == toolCalls'[i] # toolCalls[i] \/ llmCalls'[i] # llmCalls[i]

\* the walk is at the sub-task at position i, about to check its dependencies
Visiting(i) == pc = "loop" /\ idx = i

\* C22: whenever a tool or the model is invoked for a sub-task, all its
\* dependencies are in the results map with status completed; a sub-task
\* visited with an unsatisfied dependency is marked failed with "Dependencies
\* not satisfied" and the walk goes on to the next sub-task (Spec).
C22_DependencyGate ==
    [][\A i \in Positions :
          /\ Invokes(i) => DependenciesCompleted(i)
          /\ (Visiting(i) /\ ~DependenciesCompleted(i)) =>
                /\ plan'.subtasks[i].status = "failed"
                /\ plan'.subtasks[i].error = DepsError
                /\ ~Invokes(i)
                /\ pc' = "loop"
                /\ idx' = i + 1]_vars

\* returned: a sub-task that lists a dependency was invoked, the dependency
\* being recorded as completed
C22_Witness ==
    /\ Returned
    /\ \E i \in Positions :
          /\ plan.subtasks[i].dependencies # <<>>
          /\ ~NeverInvoked(i)
          /\ DependenciesCompleted(i)

\* the sub-tasks before position idx have been visited, those after it not
VisitedInOrder ==
    \A i \in Positions :
        /\ i < idx => plan.subtasks[i].status # "pending"
        /\ i > idx => Untouched(i)

ListsAbsentId(i) ==
    \E k \in 1..Len(plan.subtasks[i].dependencies) :
        \A j \in Positions : plan.subtasks[j].id # plan.subtasks[i].dependencies[k]

\* position j is reached from position i along dependencies, in at most n steps
RECURSIVE DependsWithin(_, _, _)
DependsWithin(i, j, n) ==
    /\ n > 0
    /\ \/ Lists(i, j)
       \/ \E m \in Positions : Lists(i, m) /\ DependsWithin(m, j, n - 1)

InCycle(j) == DependsWithin(j, j, NumSubtasks)

\* the dependencies of the sub-task at position i can never be satisfied
IllFormed(i) ==
    \/ ListsAbsentId(i)
    \/ Lists(i, i)
    \/ \E j \in Positions : Lists(i, j) /\ InCycle(j)

Registered(i) == plan.subtasks[i].tool \in ToolMap

\* the sub-task at position i names a tool the registry does not have
Unregistered(i) ==
    /\ plan.subtasks[i].tool \notin {NoneVal, ""}
    /\ plan.subtasks[i].tool \notin ToolMap

\* the sub-task at position i has no tool
ToolLess(i) == plan.subtasks[i].tool \in {NoneVal, ""}

\* the walk is done with position i: it went on, stopped at it, or the call
\* was left at it
Over(i) == idx > i \/ (idx = i /\ pc \in {"halt", "done", "raised"})

\* the sub-task at position i passed the dependency check and the walk is
\* done with it
Executed(i) ==
    /\ Over(i)
    /\ plan.subtasks[i].status # "pending"
    /\ ~SkippedForDependencies(i)

\* the calls of the tool for position i that returned
Successes(i) == {k \in 1..Len(toolCalls[i]) : ~toolCalls[i][k].raised}

\* C25 as claimed: for an executed sub-task with a registered tool the tool
\* is invoked until its first success and at most max_retries times; the
\* sub-task is completed with the result of the call that succeeded, and
\* otherwise failed, after exactly max_retries calls, with the text of the
\* exception of the last one.  The code violates it (Spec).
C25_RetryStopsAtFirstSuccess ==
    \A i \in Positions :
        (Registered(i) /\ Executed(i)) =>
            IF Successes(i) # {}
            THEN /\ Successes(i) = {Len(toolCalls[i])}
                 /\ Len(toolCalls[i]) <= cfg.max_retries
                 /\ plan.subtasks[i].status = "completed"
                 /\ plan.subtasks[i].result = ToolOutput(plan.subtasks[i].tool)
            ELSE /\ Len(toolCalls[i]) = cfg.max_retries
                 /\ plan.subtasks[i].status = "failed"
                 /\ toolCalls[i] # <<>> =>
                       plan.subtasks[i].error = toolCalls[i][Len(toolCalls[i])].error

\* C26: a sub-task whose tool name is not in the registry is never invoked;
\* the step that executes it marks it failed with "Tool '<name>' not
\* available", resolves no parameters, raises nothing and ends its execution
\* (Spec).
C26_MissingTool ==
    [][\A i \in Positions :
          Unregistered(i) =>
              /\ ~Invokes(i)
              /\ (pc = "exec" /\ idx = i) =>
                    /\ plan'.subtasks[i].status = "failed"
                    /\ plan'.subtasks[i].error =
                          <<"Tool '", plan.subtasks[i].tool, "' not available">>
                    /\ plan'.subtasks[i].result = NoneSeq
                    /\ params' = params
                    /\ attempt' = attempt
                    /\ raised' = raised
                    /\ pc' \in {"loop", "halt"}]_vars

\* the walk has left a sub-task that names an unregistered tool: it is failed
\* with the text naming the tool and was never invoked
C26_Witness ==
    \E i \in Positions :
        /\ Unregistered(i)
        /\ Over(i)
        /\ plan.subtasks[i].status = "failed"
        /\ plan.subtasks[i].error = <<"Tool '", plan.subtasks[i].tool, "' not available">>
        /\ NeverInvoked(i)
        /\ DOMAIN plan.subtasks[i].parameters # {}

\* the context ctx holds only entries the results map records as completed,
\* each with its stored result, and all of them
OnlyCompletedEntries(ctx) ==
    /\ \A k \in 1..Len(ctx) :
          /\ RecordedCompleted(ctx[k].tid)
          /\ ctx[k].result = StoredResult(ctx[k].tid)
    /\ \A n \in DOMAIN results.subtask_results :
          RecordedCompleted(n) => \E k \in 1..Len(ctx) : ctx[k].tid = n

\* C27: for a sub-task with no tool no tool is invoked; the step that
\* executes it invokes the model once, the only time, with a context built
\* from the entries of the results map whose status is completed, and leaves
\* the sub-task completed with the returned text as result, or failed with
\* the text of the exception as error (Spec).
C27_ToolLessSubtask ==
    [][\A i \in Positions :
          ToolLess(i) =>
              /\ toolCalls'[i] = toolCalls[i]
              /\ ~(pc = "exec" /\ idx = i) => llmCalls'[i] = llmCalls[i]
              /\ (pc = "exec" /\ idx = i) =>
                    /\ llmCalls[i] = <<>>
                    /\ Len(llmCalls'[i]) = 1
                    /\ OnlyCompletedEntries(llmCalls'[i][1])
                    /\ pc' \in {"loop", "halt"}
                    /\ \/ /\ plan'.subtasks[i].status = "completed"
                          /\ plan'.subtasks[i].result \in LLMOutputs
                          /\ plan'.subtasks[i].error = NoneSeq
                       \/ /\ plan'.subtasks[i].status = "failed"
                          /\ plan'.subtasks[i].error \in LLMExceptionTexts
                          /\ plan'.subtasks[i].result = NoneSeq]_vars

\* a sub-task with no tool was executed after a sub-task that failed: the
\* model was called once, with a context that leaves the failed entry out,
\* and its text is the result
C27_Witness ==
    /\ DistinctIds
    /\ NumSubtasks = 2
    /\ ToolLess(2)
    /\ Over(2)
    /\ plan.subtasks[1].id \in DOMAIN results.subtask_results
    /\ results.subtask_results[plan.subtasks[1].id].status = "failed"
    /\ llmCalls[2] = << <<>> >>
    /\ plan.subtasks[2].status = "completed"
    /\ plan.subtasks[2].result \in LLMOutputs

\* C28 as claimed: in strict mode the walk is never halted at a sub-task that
\* has no tool.  The code violates it (Spec).
C28_ToolLessNeverAborts ==
    (cfg.verification_mode = "strict" /\ pc = "halt") => ~ToolLess(idx)

\* the parameter value v refers to sub-task n, in the exact or the loose form
RefersTo(v, n) ==
    \/ ExactRef(v) /\ ExactRefId(v) = n
    \/ LooseRef(v) /\ LooseRefId(v) = n

\* the ids a sub-task of the plans may refer to
RefIds == 0..MaxSubtasks

\* the parameters of the current sub-task are being or were to be resolved
Resolving == pc \in {"invoke", "raised"}

\* C29 as claimed: when a parameter of a sub-task with a registered tool
\* refers to a sub-task N that the results map does not record as completed
\* (recorded with another status, or not recorded), the resolution returns,
\* the parameter is the literal string and every call of the tool carries
\* that literal.  The code violates it (Spec).
C29_OnlyFromCompleted ==
    Resolving =>
        \A k \in DOMAIN Current.parameters, n \in RefIds :
            (RefersTo(Current.parameters[k], n) /\ ~RecordedCompleted(n)) =>
                /\ pc = "invoke"
                /\ params[k] = Current.parameters[k]
                /\ \A c \in 1..Len(toolCalls[idx]) :
                      toolCalls[idx][c].args[k] = Current.parameters[k]

\* the text t is what int() reads as a number: digits, with or without
\* whitespace around them
IsIntegerText(t) ==
    LET d == {j \in 1..Len(t) : t[j] \in Digits}
    IN  /\ d # {}
        /\ \A j \in 1..Len(t) : j \notin d => t[j] \in {Blank, NL}
        /\ \A j \in 1..Len(t) :
              (\E a, b \in d : a < j /\ j < b) => j \in d

\* the number a text of digits and whitespace stands for
NumberOf(t) == DigitsValue(SelectSeq(t, LAMBDA x : x \in Digits), 0)

\* v starts with from_task_
PrefixedRef(v) == v # <<>> /\ v[1] = "from_task_"

\* v contains "task" and one of $ ( ) [ ] { }
TaskWithPunctuation(v) ==
    /\ \E j \in 1..Len(v) : v[j] \in {"task", "Task", "TASK", "from_task_"}
    /\ \E j \in 1..Len(v) : v[j] \in {"$", "(", ")", "[", "]", "{", "}"}

\* v is a str
IsText(v) == v = <<>> \/ v[1] # "#int"

\* the step is the return of _resolve_parameters
ResolveReturns == pc = "exec" /\ pc' = "invoke"

CompletedSubtasks == {i \in Positions : plan.subtasks[i].status = "completed"}

\* C31 as claimed: execute_plan makes the synthesis call exactly once, after
\* the walk over the sub-tasks is over, and when the answer is the fallback
\* sentence its count is the number of sub-tasks of the plan with status
\* completed.  The code violates it (Spec).
C31_FinalSynthesis ==
    /\ synthCalls <= 1
    /\ synthCalls = 1 => Returned
    /\ Ended => synthCalls = 1
    /\ (Returned /\ results.final_answer.kind = "fallback") =>
          results.final_answer.count = Cardinality(CompletedSubtasks)

\* C32 as claimed: when execute_plan has returned from a plan with distinct
\* ids, every sub-task whose status is not pending has an entry under its id
\* with its status, result and error.  The code violates it (Spec).
C32_FaithfulSummary ==
    (Returned /\ DistinctIds) =>
        \A i \in Positions :
            plan.subtasks[i].status # "pending" =>
                /\ plan.subtasks[i].id \in DOMAIN results.subtask_results
                /\ results.subtask_results[plan.subtasks[i].id].status = plan.subtasks[i].status
                /\ results.subtask_results[plan.subtasks[i].id].result = plan.subtasks[i].result
                /\ results.subtask_results[plan.subtasks[i].id].error = plan.subtasks[i].error

\* C33 as claimed: when execute_plan has returned no sub-task has status
\* running, for every value of max_retries.  The code violates it (Spec).
C33_NoneLeftRunning ==
    Returned => \A i \in Positions : plan.subtasks[i].status # "running"

RECURSIVE SumLen(_, _)
SumLen(f, n) == IF n = 0 THEN 0 ELSE Len(f[n]) + SumLen(f, n - 1)

\* the calls of tools and of the model made so far
ToolInvocations == SumLen(toolCalls, NumSubtasks)

TextGenerationCalls == SumLen(llmCalls, NumSubtasks) + synthCalls

C37_IdsPositiveDistinct ==
    planOut.returned =>
        /\ \A i \in 1..Len(planOut.plan.subtasks) : planOut.plan.subtasks[i].id >= 1
        /\ \A i, j \in 1..Len(planOut.plan.subtasks) :
              i # j => planOut.plan.subtasks[i].id # planOut.plan.subtasks[j].id

\* the text t is the document d inside a three-backtick block
IsFencedLayoutOf(t, d) == t \in Layouts(d) /\ Contains(t, Fence)

\* the Plan generate_plan returns for the document d alone
PlanOfDocument(d) ==
    GeneratePlanResult(question, [raises |-> FALSE, content |-> d]).plan

\* d is a valid plan document
IsPlanDocument(d) ==
    /\ JsonLoads(d).type = "dict"
    /\ {"goal", "subtasks"} \subseteq JsonLoads(d).has
    /\ \A i \in 1..Len(JsonLoads(d).subtasks) : ValidSubTask(JsonLoads(d).subtasks[i])

\* C38 as claimed: for a valid plan document J, generate_plan on J inside a
\* three-backtick block, whatever the layout of the fences, returns the Plan
\* it returns on J alone.  The code violates it (SpecPlanner).
C38_FenceTransparent ==
    (planOut.returned /\ ~llmReply.raises) =>
        \A d \in JsonTexts :
            (IsPlanDocument(d) /\ IsFencedLayoutOf(llmReply.content, d)) =>
                planOut.plan = PlanOfDocument(d)

====
